---- MODULE Spec2Model ----
(***************************************************************************)
(* Streaming scan / filter / count engine of the repository:               *)
(*   count.py                 arbitrary filters, counts, group-by report   *)
(*   otherscript.py           fixed filters, materialised subset           *)
(*   test_opinions_check.py   vectorised "has a non-null opinion_text"     *)
(*                                                                         *)
(* Text is modelled as a tuple of one-character strings, so that token     *)
(* splitting, date parsing, upper-casing, byte-wise comparison and str()   *)
(* are computed rather than assumed.                                       *)
(***************************************************************************)
EXTENDS Integers, Sequences, FiniteSets, TLC

(***************************************************************************)
(* Bounds of the model                                                     *)
(***************************************************************************)
\* longest command line (number of tokens after the program name)
MaxArgs == 2
\* total number of rows over all parquet files of ./hf_data
MaxRows == 3
\* rows per record batch: stands for batch_size=100_000 (count.py) and
\* batch_size=50_000 (otherscript.py), scaled to the row bound
BatchSize == 2
\* rows of the nested column handed to has_valid_opinion_text
MaxListRows == 3
\* child records of the nested column handed to has_valid_opinion_text
MaxChildren == 3
\* rows scanned after which --test stops otherscript.py: stands for 100_000,
\* scaled to the row bound
TestLimit == 2

\* the longest judges_list given to get_district_judges
MaxJudges == 2

\* speech_input.py, times in milliseconds.  SILENCE_DURATION stands for 1.5 s
\* and MAX_DURATION for 30 s, scaled to a few chunks of CHUNK_DURATION = 0.1 s
SILENCE_DURATION == 200
MAX_DURATION == 800
\* samples per chunk: stands for chunk_samples = int(0.1 * 16000)
ChunkSamples == 2

(***************************************************************************)
(* Text                                                                    *)
(***************************************************************************)
\* the characters the model uses, in ASCII (byte) order
Alphabet ==
  << " ", "!", "'", ",", "-", ".", "/", "0", "1", "2", "3", "4", "5", "6", "7", "8",
     "9", ":", "=", ">", "A", "D", "F", "G", "L", "N", "S", "T", "U", "[",
     "]", "_", "a", "b", "c", "d", "e", "f", "g", "h", "i", "j", "l", "n", "o",
     "p", "q", "r", "s", "t", "u", "x", "y", "{", "}" >>

\* position of a character in byte order
Ord(c) == CHOOSE i \in 1..Len(Alphabet) : Alphabet[i] = c

\* sub occurs in s at position i
OccursAt(sub, s, i) ==
  /\ i >= 1
  /\ i + Len(sub) - 1 <= Len(s)
  /\ \A j \in 1..Len(sub) : s[i + j - 1] = sub[j]

\* Python "sub in s"
Contains(sub, s) == \E i \in 1..Len(s) : OccursAt(sub, s, i)

\* index of the first occurrence of sub in s (Contains(sub, s) assumed)
Find(sub, s) ==
  CHOOSE i \in 1..Len(s) :
    OccursAt(sub, s, i) /\ \A j \in 1..(i - 1) : ~OccursAt(sub, s, j)

\* Python s.split(sub, 1) when sub occurs in s: <<k, v>>
SplitOnce(s, sub) ==
  LET i == Find(sub, s)
  IN  << SubSeq(s, 1, i - 1), SubSeq(s, i + Len(sub), Len(s)) >>

\* Python str.upper() on one character
UpperChar(c) ==
  CASE c = "a" -> "A" [] c = "d" -> "D" [] c = "f" -> "F" [] c = "g" -> "G"
    [] c = "l" -> "L" [] c = "n" -> "N" [] c = "s" -> "S" [] c = "t" -> "T"
    [] c = "u" -> "U"
    [] OTHER -> c

\* Python str.upper()
Upper(s) == [i \in 1..Len(s) |-> UpperChar(s[i])]

\* byte-wise lexicographic a < b (Arrow compares strings as binary)
RECURSIVE TextLess(_, _)
TextLess(a, b) ==
  IF b = <<>> THEN FALSE
  ELSE IF a = <<>> THEN TRUE
  ELSE IF a[1] = b[1] THEN TextLess(Tail(a), Tail(b))
  ELSE Ord(a[1]) < Ord(b[1])

\* byte-wise a >= b
TextGe(a, b) == ~TextLess(a, b)

Digits == << "0", "1", "2", "3", "4", "5", "6", "7", "8", "9" >>
IsDigit(c) == \E i \in 1..10 : Digits[i] = c
DigitVal(c) == (CHOOSE i \in 1..10 : Digits[i] = c) - 1

\* decimal value of a tuple of digits
RECURSIVE DecVal(_)
DecVal(s) ==
  IF s = <<>> THEN 0 ELSE 10 * DecVal(SubSeq(s, 1, Len(s) - 1)) + DigitVal(s[Len(s)])

\* n rendered with exactly w digits, zero padded
RECURSIVE Pad(_, _)
Pad(n, w) == IF w = 0 THEN <<>> ELSE Append(Pad(n \div 10, w - 1), Digits[(n % 10) + 1])

(***************************************************************************)
(* Calendar dates                                                          *)
(***************************************************************************)
IsLeap(y) == (y % 4 = 0) /\ ((y % 100 # 0) \/ (y % 400 = 0))

DaysInMonth(y, m) ==
  IF m = 2 THEN (IF IsLeap(y) THEN 29 ELSE 28)
  ELSE IF m \in {4, 6, 9, 11} THEN 30 ELSE 31

\* the text has the shape YYYY-MM-DD
IsoShape(s) ==
  /\ Len(s) = 10
  /\ s[5] = "-" /\ s[8] = "-"
  /\ \A i \in {1, 2, 3, 4, 6, 7, 9, 10} : IsDigit(s[i])

\* datetime.date.fromisoformat(val) succeeds (otherwise it raises ValueError)
IsIsoDate(s) ==
  /\ IsoShape(s)
  /\ LET y == DecVal(SubSeq(s, 1, 4))
         m == DecVal(SubSeq(s, 6, 7))
         d == DecVal(SubSeq(s, 9, 10))
     IN  /\ y >= 1
         /\ m >= 1 /\ m <= 12
         /\ d >= 1 /\ d <= DaysInMonth(y, m)

\* datetime.date.fromisoformat(val) when it succeeds: <<year, month, day>>
fromisoformat(s) ==
  << DecVal(SubSeq(s, 1, 4)), DecVal(SubSeq(s, 6, 7)), DecVal(SubSeq(s, 9, 10)) >>

\* date a >= date b
DateGe(a, b) ==
  \/ a[1] > b[1]
  \/ a[1] = b[1] /\ a[2] > b[2]
  \/ a[1] = b[1] /\ a[2] = b[2] /\ a[3] >= b[3]

\* str(datetime.date): date.isoformat()
isoformat(dt) == Pad(dt[1], 4) \o <<"-">> \o Pad(dt[2], 2) \o <<"-">> \o Pad(dt[3], 2)

(***************************************************************************)
(* Column values and the schema of the data files                          *)
(***************************************************************************)
Null == [t |-> "null", v |-> <<>>]
Text(s) == [t |-> "string", v |-> s]
Date(y, m, d) == [t |-> "date32", v |-> <<y, m, d>>]
\* a list of child records; each child is [opinion_text |-> Null or Text]
List(children) == [t |-> "list", v |-> children]
Opinion(text) == [opinion_text |-> text]

IsNull(val) == val.t = "null"

court_type == <<"c", "o", "u", "r", "t", "_", "t", "y", "p", "e">>
court_jurisdiction ==
  <<"c", "o", "u", "r", "t", "_", "j", "u", "r", "i", "s", "d", "i", "c", "t", "i", "o", "n">>
attorneys == <<"a", "t", "t", "o", "r", "n", "e", "y", "s">>
judges == <<"j", "u", "d", "g", "e", "s">>
date_filed == <<"d", "a", "t", "e", "_", "f", "i", "l", "e", "d">>
court_short_name ==
  <<"c", "o", "u", "r", "t", "_", "s", "h", "o", "r", "t", "_", "n", "a", "m", "e">>
court_full_name ==
  <<"c", "o", "u", "r", "t", "_", "f", "u", "l", "l", "_", "n", "a", "m", "e">>
opinions == <<"o", "p", "i", "n", "i", "o", "n", "s">>

\* column name -> Arrow type of the columns the programs consume
Schema ==
  (court_type :> "string") @@ (court_jurisdiction :> "string") @@
  (attorneys :> "string") @@ (judges :> "string") @@ (date_filed :> "date32") @@
  (court_short_name :> "string") @@ (court_full_name :> "string") @@
  (opinions :> "list")

FD == <<"F", "D">>
ST == <<"S", "T">>
USA_Federal == <<"U", "S", "A", ",", " ", "F", "e", "d", "e", "r", "a", "l">>

MkRow(ct, cj, at, ju, df, sn, fn, op) ==
  (court_type :> ct) @@ (court_jurisdiction :> cj) @@ (attorneys :> at) @@
  (judges :> ju) @@ (date_filed :> df) @@ (court_short_name :> sn) @@
  (court_full_name :> fn) @@ (opinions :> op)

\* the rows the data files are made of
RowPool ==
  << \* federal, recent, complete, one opinion with text
     MkRow(Text(FD), Text(USA_Federal), Text(<<"a">>), Text(<<"j">>), Date(2001, 1, 1),
           Text(<<"s">>), Text(<<"f">>),
           List(<< Opinion(Null), Opinion(Text(<<"t">>)) >>)),
     \* federal, recent, complete, but no opinion carries text
     MkRow(Text(FD), Text(USA_Federal), Text(<<"a">>), Text(<<"j">>), Date(2004, 2, 29),
           Text(<<"s">>), Text(<<"f">>),
           List(<< Opinion(Null) >>)),
     \* state court, no attorneys, no filing date, empty opinion list
     MkRow(Text(ST), Text(<<"x">>), Null, Text(<<"j">>), Null,
           Text(<<"s">>), Text(<<"f">>),
           List(<< >>)),
     \* no court type, filed before 2001, no full name, no opinion list
     MkRow(Null, Text(USA_Federal), Text(<<"a">>), Text(<<"j">>), Date(2000, 12, 31),
           Text(<<"s">>), Null, Null) >>

RowIds == 1..Len(RowPool)


\* all ways to cut n rows into consecutive non-empty files: tuples of lengths
RECURSIVE SumSeq(_)
SumSeq(s) == IF s = <<>> THEN 0 ELSE Head(s) + SumSeq(Tail(s))

Compositions(n) ==
  { s \in UNION { [1..k -> 1..n] : k \in 0..n } : SumSeq(s) = n }

\* the files holding the rows rs, file j having lens[j] rows
CutFiles(rs, lens) ==
  [j \in 1..Len(lens) |->
     LET start == SumSeq(SubSeq(lens, 1, j - 1))
     IN  SubSeq(rs, start + 1, start + lens[j])]

\* every content of ./hf_data within the row bound, in sorted path order
FileSets ==
  UNION { UNION { { CutFiles(rs, lens) : lens \in Compositions(n) } : rs \in [1..n -> RowIds] } :
          n \in 0..MaxRows }

\* the paths of the data files a directory may hold, in byte order
hf_data == <<".", "/", "h", "f", "_", "d", "a", "t", "a", "/">>
parquet == <<".", "p", "a", "r", "q", "u", "e", "t">>
Stems == << <<"1">>, <<"1", "0">>, <<"2">>, <<"2", "0">>, <<"3">>, <<"3", "0">> >>
PathPool == [i \in 1..MaxRows |-> hf_data \o Stems[i] \o parquet]

\* the listings glob.glob may return for a directory of n files: any n
\* different paths in any order
Listings(n) ==
  { l \in [1..n -> { PathPool[i] : i \in 1..Len(PathPool) }] :
      \A i, j \in 1..n : l[i] = l[j] => i = j }

\* glob.glob(...) used as it comes, without sorted()
unsorted(l) == l

\* sorted(l) on a list of different texts
sorted(l) ==
  [i \in 1..Len(l) |->
     CHOOSE x \in { l[k] : k \in 1..Len(l) } :
       Cardinality({ k \in 1..Len(l) : TextLess(l[k], x) }) = i - 1]

\* which files of a directory are not valid parquet files: at most one
Unreadable(fs) == { {} } \cup { {j} : j \in 1..Len(fs) }

(***************************************************************************)
(* Command lines of count.py                                               *)
(***************************************************************************)
has_opinion_flag == <<"-", "-", "h", "a", "s", "-", "o", "p", "i", "n", "i", "o", "n">>
NEQ == <<"!", "=">>
GTE == <<">", "=">>
EQ == <<"=">>
NULL_WORD == <<"N", "U", "L", "L">>

\* a column name that is not in the schema of the data files
absent == <<"a", "b", "s", "e", "n", "t">>

\* the tokens command lines are made of
TokenPool ==
  << court_type \o EQ \o FD,
     court_type \o EQ \o ST,
     attorneys \o NEQ \o NULL_WORD,
     date_filed \o GTE \o <<"2", "0", "0", "1", "-", "0", "1", "-", "0", "1">>,
     date_filed \o GTE \o <<"2", "0", "0", "1", "-", "1", "3", "-", "0", "1">>,
     court_type \o GTE \o <<"G">>,
     has_opinion_flag,
     court_type,
     absent \o EQ \o FD,
     absent,
     court_type \o NEQ \o FD,
     attorneys \o NEQ \o <<"n", "u", "l", "l">> >>

TokenIds == 1..Len(TokenPool)

\* every command line within the bound, as tuples of token ids
ArgLists == UNION { [1..n -> TokenIds] : n \in 0..MaxArgs }

\* dict[k] = v on an insertion-ordered dict kept as a tuple of <<key, value>>
DictSet(d, k, v) ==
  IF \E i \in 1..Len(d) : d[i][1] = k
  THEN [i \in 1..Len(d) |-> IF d[i][1] = k THEN <<k, v>> ELSE d[i]]
  ELSE Append(d, <<k, v>>)

DictKeys(d) == { d[i][1] : i \in 1..Len(d) }

NoFilters ==
  [eq_filters |-> <<>>, notnull_filters |-> <<>>, gte_filters |-> <<>>,
   group_cols |-> <<>>, has_opinion |-> FALSE]

\* the argument loop with column!=value read as a bare column name
ParseArgNeqAsGroup(p, arg) ==
  IF arg = has_opinion_flag THEN [p EXCEPT !.has_opinion = TRUE]
  ELSE IF Contains(NEQ, arg) THEN
    LET kv == SplitOnce(arg, NEQ)
    IN  IF Upper(kv[2]) = NULL_WORD
        THEN [p EXCEPT !.notnull_filters = Append(@, kv[1])]
        ELSE [p EXCEPT !.group_cols = Append(@, kv[1])]
  ELSE IF Contains(GTE, arg) THEN
    LET kv == SplitOnce(arg, GTE)
    IN  [p EXCEPT !.gte_filters = DictSet(@, kv[1], kv[2])]
  ELSE IF Contains(EQ, arg) THEN
    LET kv == SplitOnce(arg, EQ)
    IN  [p EXCEPT !.eq_filters = DictSet(@, kv[1], kv[2])]
  ELSE [p EXCEPT !.group_cols = Append(@, arg)]

\* one iteration of the argument loop
ParseArg(p, arg) ==
  IF arg = has_opinion_flag THEN [p EXCEPT !.has_opinion = TRUE]
  ELSE IF Contains(NEQ, arg) THEN
    LET kv == SplitOnce(arg, NEQ)
    IN  IF Upper(kv[2]) = NULL_WORD
        THEN [p EXCEPT !.notnull_filters = Append(@, kv[1])]
        ELSE p
  ELSE IF Contains(GTE, arg) THEN
    LET kv == SplitOnce(arg, GTE)
    IN  [p EXCEPT !.gte_filters = DictSet(@, kv[1], kv[2])]
  ELSE IF Contains(EQ, arg) THEN
    LET kv == SplitOnce(arg, EQ)
    IN  [p EXCEPT !.eq_filters = DictSet(@, kv[1], kv[2])]
  ELSE [p EXCEPT !.group_cols = Append(@, arg)]

\* the argument loop over a command line given as texts
RECURSIVE ParseArgv(_)
ParseArgv(argv) ==
  IF argv = <<>> THEN NoFilters
  ELSE ParseArg(ParseArgv(SubSeq(argv, 1, Len(argv) - 1)), argv[Len(argv)])

\* the texts of a command line given as token ids
Argv(ids) == [i \in 1..Len(ids) |-> TokenPool[ids[i]]]

\* needed_cols: none = TRUE stands for None (read every column)
NeededCols(p) ==
  LET cols == DictKeys(p.eq_filters) \cup { p.notnull_filters[i] : i \in 1..Len(p.notnull_filters) }
              \cup DictKeys(p.gte_filters) \cup { p.group_cols[i] : i \in 1..Len(p.group_cols) }
  IN  IF p.has_opinion \/ cols = {} THEN [none |-> TRUE, cols |-> {}]
      ELSE [none |-> FALSE, cols |-> cols]


(***************************************************************************)
(* count.py: one record batch                                              *)
(***************************************************************************)
NoErr == [kind |-> "none", line |-> 0]
Raise(kind, line) == [kind |-> kind, line |-> line]

\* the columns of the table read with columns=needed_cols
Columns(needed) ==
  IF needed.none THEN DOMAIN Schema ELSE needed.cols \cap DOMAIN Schema

\* the value of column col in row i of a batch of row ids
Cell(b, i, col) == RowPool[b[i]][col]

\* pc.equal(column, val): null where the value is null
equal(b, col, val) ==
  [i \in 1..Len(b) |->
     IF IsNull(Cell(b, i, col)) THEN "null"
     ELSE IF Cell(b, i, col).v = val THEN "true" ELSE "false"]

\* pc.is_valid(column): never null
is_valid(b, col) ==
  [i \in 1..Len(b) |-> IF IsNull(Cell(b, i, col)) THEN "false" ELSE "true"]

\* pc.greater in place of pc.greater_equal: the date itself is excluded
greater_date(b, col, dt) ==
  [i \in 1..Len(b) |->
     IF IsNull(Cell(b, i, col)) THEN "null"
     ELSE IF DateGe(Cell(b, i, col).v, dt) /\ Cell(b, i, col).v # dt THEN "true" ELSE "false"]

\* pc.greater_equal(date column, dt): null where the value is null
greater_equal_date(b, col, dt) ==
  [i \in 1..Len(b) |->
     IF IsNull(Cell(b, i, col)) THEN "null"
     ELSE IF DateGe(Cell(b, i, col).v, dt) THEN "true" ELSE "false"]

\* pc.greater_equal(string column, val): null where the value is null
greater_equal_text(b, col, val) ==
  [i \in 1..Len(b) |->
     IF IsNull(Cell(b, i, col)) THEN "null"
     ELSE IF TextGe(Cell(b, i, col).v, val) THEN "true" ELSE "false"]

\* pc.and_ confusing a null on the left with "no mask yet": the right side wins
And2NullAsNone(x, y) ==
  IF x = "null" THEN y
  ELSE IF y = "null" THEN "null"
  ELSE IF x = "true" /\ y = "true" THEN "true" ELSE "false"

\* pc.and_ on two values: null if either side is null (not Kleene)
And2(x, y) ==
  IF x = "null" \/ y = "null" THEN "null"
  ELSE IF x = "true" /\ y = "true" THEN "true" ELSE "false"

\* pc.and_ on two masks
and_(a, b) == [i \in 1..Len(a) |-> And2(a[i], b[i])]

\* the predicates in the order the batch loop evaluates them
PredList(p) ==
  [i \in 1..Len(p.eq_filters) |->
     [kind |-> "eq", col |-> p.eq_filters[i][1], val |-> p.eq_filters[i][2]]] \o
  [i \in 1..Len(p.notnull_filters) |->
     [kind |-> "notnull", col |-> p.notnull_filters[i], val |-> <<>>]] \o
  [i \in 1..Len(p.gte_filters) |->
     [kind |-> "gte", col |-> p.gte_filters[i][1], val |-> p.gte_filters[i][2]]]

\* what evaluating one predicate raises: table.column(col) raises KeyError for
\* an absent column, a comparison kernel raises ArrowNotImplementedError for
\* operand types it has no kernel for; neither is a ValueError
PredErr(pr, cols) ==
  IF pr.kind = "eq" THEN
    IF pr.col \notin cols THEN Raise("KeyError", 76)
    ELSE IF Schema[pr.col] # "string" THEN Raise("ArrowNotImplementedError", 76)
    ELSE NoErr
  ELSE IF pr.kind = "notnull" THEN
    IF pr.col \notin cols THEN Raise("KeyError", 81) ELSE NoErr
  ELSE IF IsIsoDate(pr.val) THEN
    IF pr.col \notin cols THEN Raise("KeyError", 88)
    ELSE IF Schema[pr.col] # "date32" THEN Raise("ArrowNotImplementedError", 89)
    ELSE NoErr
  ELSE
    IF pr.col \notin cols THEN Raise("KeyError", 91)
    ELSE IF Schema[pr.col] # "string" THEN Raise("ArrowNotImplementedError", 91)
    ELSE NoErr

\* cond of one predicate over a batch (PredErr = NoErr assumed)
PredCond(pr, b) ==
  IF pr.kind = "eq" THEN equal(b, pr.col, pr.val)
  ELSE IF pr.kind = "notnull" THEN is_valid(b, pr.col)
  ELSE IF IsIsoDate(pr.val)
       THEN and_(is_valid(b, pr.col), greater_equal_date(b, pr.col, fromisoformat(pr.val)))
       ELSE greater_equal_text(b, pr.col, pr.val)

\* mask = cond if mask is None else pc.and_(mask, cond), over the predicates
RECURSIVE BuildMask(_, _, _)
BuildMask(preds, b, cols) ==
  IF preds = <<>> THEN [none |-> TRUE, m |-> <<>>, err |-> NoErr]
  ELSE LET prev == BuildMask(SubSeq(preds, 1, Len(preds) - 1), b, cols)
           pr == preds[Len(preds)]
       IN  IF prev.err # NoErr THEN prev
           ELSE IF PredErr(pr, cols) # NoErr THEN [prev EXCEPT !.err = PredErr(pr, cols)]
           ELSE [none |-> FALSE,
                 m |-> IF prev.none THEN PredCond(pr, b) ELSE and_(prev.m, PredCond(pr, b)),
                 err |-> NoErr]

\* the rows of b whose entry in the boolean tuple keep is TRUE, in order
RECURSIVE TakeRows(_, _)
TakeRows(b, keep) ==
  IF b = <<>> THEN <<>>
  ELSE (IF Head(keep) THEN <<Head(b)>> ELSE <<>>) \o TakeRows(Tail(b), Tail(keep))

\* a filter that drops only the rows whose mask is false
filterKeepNull(b, m) == TakeRows(b, [i \in 1..Len(b) |-> m[i] # "false"])

\* table.filter(mask): rows whose mask is null or false are dropped
filter(b, m) == TakeRows(b, [i \in 1..Len(b) |-> m[i] = "true"])

\* ops and any(op.get("opinion_text") is not None for op in ops)
HasOpinionScalar(val) ==
  /\ ~IsNull(val)
  /\ Len(val.v) > 0
  /\ \E k \in 1..Len(val.v) : ~IsNull(val.v[k].opinion_text)

\* the opinion check of the batch loop on the remaining rows
OpinionCheck(t) == TakeRows(t, [i \in 1..Len(t) |-> HasOpinionScalar(Cell(t, i, opinions))])

\* repr of one child record inside str(list)
ReprOpinion(o) ==
  <<"{", "'", "o", "p", "i", "n", "i", "o", "n", "_", "t", "e", "x", "t", "'", ":", " ">> \o
  (IF IsNull(o.opinion_text) THEN <<"N", "o", "n", "e">>
   ELSE <<"'">> \o o.opinion_text.v \o <<"'">>) \o <<"}">>

RECURSIVE ReprItems(_)
ReprItems(cs) ==
  IF cs = <<>> THEN <<>>
  ELSE IF Len(cs) = 1 THEN ReprOpinion(cs[1])
  ELSE ReprOpinion(cs[1]) \o <<",", " ">> \o ReprItems(Tail(cs))

\* key = str(val)
Render(val) ==
  IF IsNull(val) THEN <<"N", "o", "n", "e">>
  ELSE IF val.t = "string" THEN val.v
  ELSE IF val.t = "date32" THEN isoformat(val.v)
  ELSE <<"[">> \o ReprItems(val.v) \o <<"]">>

\* counts[key] = counts.get(key, 0) + 1 on an insertion-ordered dict
HistAdd(h, key) ==
  IF \E i \in 1..Len(h) : h[i][1] = key
  THEN [i \in 1..Len(h) |-> IF h[i][1] = key THEN <<key, h[i][2] + 1>> ELSE h[i]]
  ELSE Append(h, <<key, 1>>)

\* the inner loop over table.column(col).to_pylist()
RECURSIVE HistAddAll(_, _, _)
HistAddAll(h, t, col) ==
  IF t = <<>> THEN h
  ELSE HistAddAll(HistAdd(h, Render(RowPool[Head(t)][col])), Tail(t), col)

\* the loop over group_cols without the "if col not in value_counts" guard:
\* every batch starts the histogram of the column again
RECURSIVE GroupAccumulateReset(_, _, _, _)
GroupAccumulateReset(vc, gcols, t, cols) ==
  IF gcols = <<>> THEN [vc |-> vc, err |-> NoErr]
  ELSE LET col == Head(gcols)
           vc1 == (col :> <<>>) @@ vc
       IN  IF col \notin cols THEN [vc |-> vc1, err |-> Raise("KeyError", 113)]
           ELSE GroupAccumulateReset([vc1 EXCEPT ![col] = HistAddAll(@, t, col)],
                                     Tail(gcols), t, cols)

\* the loop over group_cols for one filtered table
RECURSIVE GroupAccumulate(_, _, _, _)
GroupAccumulate(vc, gcols, t, cols) ==
  IF gcols = <<>> THEN [vc |-> vc, err |-> NoErr]
  ELSE LET col == Head(gcols)
           vc1 == IF col \in DOMAIN vc THEN vc ELSE (col :> <<>>) @@ vc
       IN  IF col \notin cols THEN [vc |-> vc1, err |-> Raise("KeyError", 113)]
           ELSE GroupAccumulate([vc1 EXCEPT ![col] = HistAddAll(@, t, col)], Tail(gcols), t, cols)

\* line 69 with "=" in place of "+=": the scanned counter is overwritten
ScannedAssigned(total, b) == Len(b)

\* line 69: total_rows += len(table)
Scanned(total, b) == total + Len(b)

\* the body of the batch loop: acc holds total_rows, matched_rows, value_counts
BatchStep(p, needed, acc, b) ==
  LET cols == Columns(needed)
      tr == Scanned(acc.total_rows, b)
      mk == BuildMask(PredList(p), b, cols)
  IN  IF mk.err # NoErr
      THEN [total_rows |-> tr, matched_rows |-> acc.matched_rows,
            value_counts |-> acc.value_counts, table |-> b, err |-> mk.err]
      ELSE LET t1 == IF mk.none THEN b ELSE filter(b, mk.m)
           IN  IF p.has_opinion /\ Len(t1) > 0 /\ opinions \notin cols
               THEN [total_rows |-> tr, matched_rows |-> acc.matched_rows,
                     value_counts |-> acc.value_counts, table |-> t1,
                     err |-> Raise("KeyError", 99)]
               ELSE LET t2 == IF p.has_opinion /\ Len(t1) > 0 THEN OpinionCheck(t1) ELSE t1
                        g == GroupAccumulate(acc.value_counts, p.group_cols, t2, cols)
                    IN  [total_rows |-> tr, matched_rows |-> acc.matched_rows + Len(t2),
                         value_counts |-> g.vc, table |-> t2, err |-> g.err]

\* the batches pf.iter_batches(batch_size) yields for one file, in order
RECURSIVE Batches(_, _)
Batches(f, size) ==
  IF f = <<>> THEN <<>>
  ELSE IF Len(f) <= size THEN << f >>
  ELSE << SubSeq(f, 1, size) >> \o Batches(SubSeq(f, size + 1, Len(f)), size)

\* the batches of every file, in scan order
RECURSIVE AllBatches(_, _)
AllBatches(fs, size) ==
  IF fs = <<>> THEN <<>> ELSE Batches(Head(fs), size) \o AllBatches(Tail(fs), size)

\* the batch loop over a list of batches; kept collects the surviving rows
RECURSIVE ScanBatches(_, _, _, _)
ScanBatches(p, needed, acc, bs) ==
  IF bs = <<>> \/ acc.err # NoErr THEN acc
  ELSE LET r == BatchStep(p, needed, acc, Head(bs))
       IN  ScanBatches(p, needed,
                       [total_rows |-> r.total_rows, matched_rows |-> r.matched_rows,
                        value_counts |-> r.value_counts, err |-> r.err,
                        kept |-> IF r.err = NoErr THEN acc.kept \o r.table ELSE acc.kept],
                       Tail(bs))

\* lines 59-115 for a command line and a file set: the accumulators at the end
ScanAll(argv, fs) ==
  ScanBatches(ParseArgv(argv), NeededCols(ParseArgv(argv)),
              [total_rows |-> 0, matched_rows |-> 0, value_counts |-> <<>>,
               err |-> NoErr, kept |-> <<>>],
              AllBatches(fs, BatchSize))

\* sorted(counts.items(), key=lambda x: (-x[1], x[0])): ties ordered by value
RECURSIVE sorted_by_count_then_value(_)
sorted_by_count_then_value(items) ==
  IF items = <<>> THEN <<>>
  ELSE LET front == sorted_by_count_then_value(SubSeq(items, 1, Len(items) - 1))
           x == items[Len(items)]
           k == Cardinality({ i \in 1..Len(front) :
                                \/ front[i][2] > x[2]
                                \/ front[i][2] = x[2] /\ TextLess(front[i][1], x[1]) })
       IN  SubSeq(front, 1, k) \o << x >> \o SubSeq(front, k + 1, Len(front))

\* sorted(counts.items(), key=lambda x: -x[1]): stable, descending by count
RECURSIVE sorted_by_count(_)
sorted_by_count(items) ==
  IF items = <<>> THEN <<>>
  ELSE LET front == sorted_by_count(SubSeq(items, 1, Len(items) - 1))
           x == items[Len(items)]
           k == Cardinality({ i \in 1..Len(front) : front[i][2] >= x[2] })
       IN  SubSeq(front, 1, k) \o << x >> \o SubSeq(front, k + 1, Len(front))


(***************************************************************************)
(* State                                                                   *)
(***************************************************************************)
VARIABLES
  prog,             \* which script runs: "count" or "other"
  pc,               \* position of the script
  args,             \* sys.argv[1:] of count.py, as token ids
  glob_result,      \* the paths glob.glob returned, in the order it returned them
  files,            \* the row ids of each file of parquet_files, in that order
  unreadable,       \* the indices of the files that are not valid parquet files
  divergent,        \* the indices of the files whose schema has one more column
  fi,               \* index of the file of the current loop iteration
  pos,              \* rows of that file already delivered in batches
  batch,            \* the batch last read
  table,            \* count.py: table after the filters of the last batch
  eq_filters, notnull_filters, gte_filters, group_cols, has_opinion, needed_cols,
  total_rows, matched_rows, value_counts,
  report,           \* count.py: the (col, sorted_counts) sections printed
  err,              \* the exception that ended the run, NoErr if none
  TEST_MODE, writer, total_kept, total_scanned,
  out_file,         \* the output file and the rows written
  today,            \* create_subset.py, count_filtered.py: datetime.date.today()
  fragments,        \* the files of the dataset, as indices into files
  location_description, judges_list,  \* get_district_judges: the arguments
  jpc,              \* position inside get_district_judges
  response,         \* what the request to the remote model came back with
  content,          \* the text of the answer
  parsed,           \* result = json.loads(content)
  returned,         \* the value returned by the function
  raised,           \* the exception that escaped the function, "none" if none
  ppc,              \* pipeline: "judges" until get_judge_pmf has returned, then "pmf"
  judge_pmf,        \* pipeline: the mapping get_judge_pmf returned
  max_duration,     \* record_until_silence: the argument
  rpc,              \* position inside record_until_silence
  threshold, silence_chunks_needed, max_chunks,
  mic,              \* the chunks the input stream has delivered so far
  stream,           \* the input stream: "none", "active" or "closed"
  chunks, silence_count, speech_started,
  audio,            \* the array returned
  opinions_chunked, \* test_opinions_check.py: the column given to the function
  tpc,              \* position inside has_valid_opinion_text
  offsets_np, text_valid, cumsum, row_sums,
  result            \* the boolean array returned

filterVars == <<eq_filters, notnull_filters, gte_filters, group_cols, has_opinion, needed_cols>>
countVars == <<total_rows, matched_rows, value_counts, table, report>>
otherVars == <<TEST_MODE, writer, total_kept, total_scanned, out_file>>
scanVars == <<prog, pc, args, glob_result, files, unreadable, divergent, fi, pos, batch, err, filterVars, countVars, otherVars>>
opinionVars == <<opinions_chunked, tpc, offsets_np, text_valid, cumsum, row_sums, result>>
\* the variables of the programs other than the two scan scripts
datasetVars == <<today, fragments>>
judgeVars == <<location_description, judges_list, jpc, response, content, parsed,
               returned, raised>>
pmfVars == <<ppc, judge_pmf>>
speechVars == <<max_duration, rpc, threshold, silence_chunks_needed, max_chunks, mic, stream,
                chunks, silence_count, speech_started, audio>>
elseVars == <<opinionVars, datasetVars, judgeVars, pmfVars, speechVars>>
vars == <<scanVars, elseVars>>

Min(a, b) == IF a <= b THEN a ELSE b

\* line 24 (line 11 of otherscript.py): parquet_files = sorted(glob.glob(...))
parquet_files == sorted(glob_result)

\* the parsed filters as one record
Filters ==
  [eq_filters |-> eq_filters, notnull_filters |-> notnull_filters,
   gte_filters |-> gte_filters, group_cols |-> group_cols, has_opinion |-> has_opinion]

NoOutput == [exists |-> FALSE, schema |-> "none", rows |-> <<>>]

\* test_opinions_check.py is not running
OpinionIdle ==
  /\ opinions_chunked = <<>> /\ tpc = "idle"
  /\ offsets_np = <<>> /\ text_valid = <<>> /\ cumsum = <<>> /\ row_sums = <<>>
  /\ result = <<>>

\* get_district_judges is not running
JudgeIdle ==
  /\ location_description = <<>> /\ judges_list = <<>> /\ jpc = "idle"
  /\ response = [kind |-> "none", status |-> 0, body |-> "none", text |-> <<>>] /\ content = <<>> /\ parsed = [t |-> "none"]
  /\ returned = <<>> /\ raised = "none"

\* get_judge_pmf has not been called
PmfIdle == ppc = "judges" /\ judge_pmf = <<>>

\* record_until_silence is not running
SpeechIdle ==
  /\ max_duration = 0 /\ rpc = "idle" /\ threshold = 0
  /\ silence_chunks_needed = 0 /\ max_chunks = 0
  /\ mic = <<>> /\ stream = "none" /\ chunks = <<>>
  /\ silence_count = 0 /\ speech_started = FALSE /\ audio = <<>>

\* neither dataset script is running
DatasetIdle == today = <<>> /\ fragments = <<>>

\* neither scan script is running
ScanIdle ==
  /\ prog = "none" /\ pc = "idle"
  /\ args = <<>> /\ glob_result = <<>> /\ files = <<>> /\ unreadable = {} /\ divergent = {}
  /\ fi = 0 /\ pos = 0 /\ batch = <<>> /\ table = <<>> /\ err = NoErr
  /\ eq_filters = <<>> /\ notnull_filters = <<>> /\ gte_filters = <<>>
  /\ group_cols = <<>> /\ has_opinion = FALSE
  /\ needed_cols = [none |-> TRUE, cols |-> {}]
  /\ total_rows = 0 /\ matched_rows = 0 /\ value_counts = <<>> /\ report = <<>>
  /\ TEST_MODE = FALSE /\ writer = "None" /\ total_kept = 0 /\ total_scanned = 0
  /\ out_file = NoOutput

InitCount ==
  /\ prog = "count" /\ pc = "parse"
  /\ args \in ArgLists
  /\ files \in FileSets
  /\ glob_result = SubSeq(PathPool, 1, Len(files))
  /\ unreadable \in Unreadable(files)
  /\ divergent = {}   \* count.py reads columns by name only: one more column changes no step
  /\ fi = 0 /\ pos = 0 /\ batch = <<>> /\ table = <<>> /\ err = NoErr
  /\ eq_filters = <<>> /\ notnull_filters = <<>> /\ gte_filters = <<>>
  /\ group_cols = <<>> /\ has_opinion = FALSE
  /\ needed_cols = [none |-> TRUE, cols |-> {}]
  /\ total_rows = 0 /\ matched_rows = 0 /\ value_counts = <<>> /\ report = <<>>
  /\ TEST_MODE = FALSE /\ writer = "None" /\ total_kept = 0 /\ total_scanned = 0
  /\ out_file = NoOutput
  /\ OpinionIdle /\ DatasetIdle /\ JudgeIdle /\ PmfIdle /\ SpeechIdle

(***************************************************************************)
(* count.py                                                                *)
(***************************************************************************)
\* lines 27-57: the argument loop and needed_cols
ParseArgs ==
  /\ prog = "count" /\ pc = "parse"
  /\ LET p == ParseArgv(Argv(args))
     IN  /\ eq_filters' = p.eq_filters
         /\ notnull_filters' = p.notnull_filters
         /\ gte_filters' = p.gte_filters
         /\ group_cols' = p.group_cols
         /\ has_opinion' = p.has_opinion
         /\ needed_cols' = NeededCols(p)
  /\ pc' = "loop"
  /\ UNCHANGED <<prog, args, glob_result, files, unreadable, divergent, fi, pos, batch, err, countVars, otherVars, elseVars>>

\* lines 64-65: the next file of the sorted list is opened
CountOpenFile ==
  /\ prog = "count" /\ pc = "loop"
  /\ fi < Len(files)
  /\ fi' = fi + 1 /\ pos' = 0
  /\ IF fi + 1 \in unreadable
     THEN err' = Raise("ArrowInvalid", 65) /\ pc' = "error"
     ELSE err' = err /\ pc' = "batches"
  /\ UNCHANGED <<prog, args, glob_result, files, unreadable, divergent, batch, filterVars, countVars, otherVars, elseVars>>

\* lines 67-115: one batch is read, filtered and accumulated
CountBatch ==
  /\ prog = "count" /\ pc = "batches"
  /\ pos < Len(files[fi])
  /\ LET b == SubSeq(files[fi], pos + 1, Min(pos + BatchSize, Len(files[fi])))
         r == BatchStep(Filters, needed_cols,
                        [total_rows |-> total_rows, matched_rows |-> matched_rows,
                         value_counts |-> value_counts], b)
     IN  /\ batch' = b
         /\ pos' = pos + Len(b)
         /\ total_rows' = r.total_rows
         /\ matched_rows' = r.matched_rows
         /\ value_counts' = r.value_counts
         /\ table' = r.table
         /\ err' = r.err
         /\ pc' = IF r.err # NoErr THEN "error" ELSE "batches"
  /\ UNCHANGED <<prog, args, glob_result, files, unreadable, divergent, fi, report, filterVars, otherVars, elseVars>>

\* lines 117-118: the file is exhausted, progress is printed
CountProgress ==
  /\ prog = "count" /\ pc = "batches"
  /\ pos = Len(files[fi])
  /\ pc' = "loop"
  /\ UNCHANGED <<prog, args, glob_result, files, unreadable, divergent, fi, pos, batch, err, filterVars, countVars, otherVars, elseVars>>

\* lines 120-141: totals and, per group-by token, the sorted histogram;
\* value_counts[col] raises KeyError when no batch ever created the entry
CountReport ==
  /\ prog = "count" /\ pc = "loop"
  /\ fi = Len(files)
  /\ IF \E i \in 1..Len(group_cols) : group_cols[i] \notin DOMAIN value_counts
     THEN /\ err' = Raise("KeyError", 137)
          /\ report' = <<>>
          /\ pc' = "error"
     ELSE /\ report' = [i \in 1..Len(group_cols) |->
                          <<group_cols[i], sorted_by_count(value_counts[group_cols[i]])>>]
          /\ err' = err
          /\ pc' = "done"
  /\ UNCHANGED <<prog, args, glob_result, files, unreadable, divergent, fi, pos, batch, filterVars,
                 total_rows, matched_rows, value_counts, table, otherVars, elseVars>>

NextCount == ParseArgs \/ CountOpenFile \/ CountBatch \/ CountProgress \/ CountReport

SpecCount == InitCount /\ [][NextCount]_vars


\* count.py without arguments over a directory listed in any order
InitListing ==
  /\ prog = "count" /\ pc = "parse"
  /\ args = <<>>
  /\ files \in FileSets
  /\ glob_result \in Listings(Len(files))
  /\ unreadable = {} /\ divergent = {}
  /\ fi = 0 /\ pos = 0 /\ batch = <<>> /\ table = <<>> /\ err = NoErr
  /\ eq_filters = <<>> /\ notnull_filters = <<>> /\ gte_filters = <<>>
  /\ group_cols = <<>> /\ has_opinion = FALSE
  /\ needed_cols = [none |-> TRUE, cols |-> {}]
  /\ total_rows = 0 /\ matched_rows = 0 /\ value_counts = <<>> /\ report = <<>>
  /\ TEST_MODE = FALSE /\ writer = "None" /\ total_kept = 0 /\ total_scanned = 0
  /\ out_file = NoOutput
  /\ OpinionIdle /\ DatasetIdle /\ JudgeIdle /\ PmfIdle /\ SpeechIdle

SpecListing == InitListing /\ [][NextCount]_vars

(***************************************************************************)
(* otherscript.py                                                          *)
(***************************************************************************)
InitOther ==
  /\ prog = "other" /\ pc = "loop"
  /\ args = <<>>
  /\ files \in FileSets
  /\ glob_result = SubSeq(PathPool, 1, Len(files))
  /\ \E special \in Unreadable(files) :
       \/ unreadable = special /\ divergent = {}
       \/ unreadable = {} /\ divergent = special
  /\ fi = 0 /\ pos = 0 /\ batch = <<>> /\ table = <<>> /\ err = NoErr
  /\ eq_filters = <<>> /\ notnull_filters = <<>> /\ gte_filters = <<>>
  /\ group_cols = <<>> /\ has_opinion = FALSE
  /\ needed_cols = [none |-> TRUE, cols |-> {}]
  /\ total_rows = 0 /\ matched_rows = 0 /\ value_counts = <<>> /\ report = <<>>
  /\ TEST_MODE \in BOOLEAN
  /\ writer = "None" /\ total_kept = 0 /\ total_scanned = 0
  /\ out_file = NoOutput
  /\ OpinionIdle /\ DatasetIdle /\ JudgeIdle /\ PmfIdle /\ SpeechIdle

\* lines 27-36: the fixed conditions, in order
conditions(b) ==
  << equal(b, court_type, FD),
     equal(b, court_jurisdiction, USA_Federal),
     is_valid(b, attorneys),
     is_valid(b, judges),
     is_valid(b, date_filed),
     greater_equal_date(b, date_filed, <<2001, 1, 1>>),
     is_valid(b, court_short_name),
     is_valid(b, court_full_name) >>

\* lines 37-39: mask = conditions[0]; mask = pc.and_(mask, c) for the rest
RECURSIVE AndAll(_)
AndAll(cs) ==
  IF Len(cs) = 1 THEN cs[1]
  ELSE and_(AndAll(SubSeq(cs, 1, Len(cs) - 1)), cs[Len(cs)])

\* lines 27-43 without the opinion check of lines 45-56
SubsetNoOpinionCheck(b) == filter(b, AndAll(conditions(b)))

\* lines 27-56: the rows of a batch that are written (empty on either continue)
Subset(b) ==
  LET filtered == filter(b, AndAll(conditions(b)))
  IN  IF Len(filtered) = 0 THEN <<>> ELSE OpinionCheck(filtered)

\* the schema of the tables read from file j
FileSchema(j) == IF j \in divergent THEN "extra" ELSE "base"

\* lines 59-61 with a new ParquetWriter for every table: the file is replaced
WriteTableReopen(w, f, sch, subset) ==
  [writer |-> "open", err |-> NoErr,
   file |-> [exists |-> TRUE, schema |-> sch, rows |-> subset]]

\* lines 59-61: the writer is created for the first table, with its schema,
\* which creates the file empty; write_table raises ValueError for a table
\* whose schema is not the schema of the writer
WriteTable(w, f, sch, subset) ==
  IF w = "None"
  THEN [writer |-> "open", err |-> NoErr,
        file |-> [exists |-> TRUE, schema |-> sch, rows |-> subset]]
  ELSE IF sch # f.schema
  THEN [writer |-> w, err |-> Raise("ValueError", 61), file |-> f]
  ELSE [writer |-> w, err |-> NoErr, file |-> [f EXCEPT !.rows = @ \o subset]]

\* pq.read_table(out_path): a file whose writer was closed gives back the
\* rows written, in order; without the footer written by close() the file
\* cannot be read, and neither can a file that was never created
read_table(f, w) ==
  IF f.exists /\ w = "closed" THEN [ok |-> TRUE, rows |-> f.rows]
  ELSE [ok |-> FALSE, rows |-> <<>>]

\* lines 20-21: the next file of the sorted list is opened
OtherOpenFile ==
  /\ prog = "other" /\ pc = "loop"
  /\ fi < Len(files)
  /\ fi' = fi + 1 /\ pos' = 0
  /\ IF fi + 1 \in unreadable
     THEN err' = Raise("ArrowInvalid", 21) /\ pc' = "error"
     ELSE err' = err /\ pc' = "batches"
  /\ UNCHANGED <<prog, args, glob_result, files, unreadable, divergent, batch, filterVars, countVars, otherVars, elseVars>>

\* lines 22-68: one batch is read and filtered; its surviving rows are written
OtherBatch ==
  /\ prog = "other" /\ pc = "batches"
  /\ pos < Len(files[fi])
  /\ LET b == SubSeq(files[fi], pos + 1, Min(pos + BatchSize, Len(files[fi])))
         subset == Subset(b)
     IN  /\ batch' = b
         /\ pos' = pos + Len(b)
         /\ total_scanned' = total_scanned + Len(b)
         /\ IF subset = <<>>
            THEN /\ UNCHANGED <<total_kept, writer, out_file, err>>
                 /\ pc' = "batches"
            ELSE LET w == WriteTable(writer, out_file, FileSchema(fi), subset)
                 IN  /\ total_kept' = total_kept + Len(subset)
                     /\ writer' = w.writer
                     /\ out_file' = w.file
                     /\ err' = w.err
                     /\ pc' = IF w.err # NoErr THEN "error"
                              ELSE IF TEST_MODE /\ total_scanned + Len(b) >= TestLimit
                              THEN "file_end" ELSE "batches"
  /\ UNCHANGED <<prog, args, glob_result, files, unreadable, divergent, fi, filterVars, countVars, TEST_MODE, elseVars>>

\* lines 70-71: after the batches of a file, or after the break of line 68
OtherFileEnd ==
  /\ prog = "other"
  /\ \/ pc = "batches" /\ pos = Len(files[fi])
     \/ pc = "file_end"
  /\ pc' = IF TEST_MODE /\ total_scanned >= TestLimit THEN "finish" ELSE "loop"
  /\ UNCHANGED <<prog, args, glob_result, files, unreadable, divergent, fi, pos, batch, err, filterVars, countVars, otherVars, elseVars>>

\* lines 73-78 without the close of line 74
OtherFinishNoClose ==
  /\ prog = "other"
  /\ \/ pc = "loop" /\ fi = Len(files)
     \/ pc = "finish"
  /\ pc' = "done"
  /\ UNCHANGED <<prog, args, glob_result, files, unreadable, divergent, fi, pos, batch, err, filterVars,
                 countVars, otherVars, elseVars>>

\* lines 73-78: the writer is closed if one was opened
OtherFinish ==
  /\ prog = "other"
  /\ \/ pc = "loop" /\ fi = Len(files)
     \/ pc = "finish"
  /\ writer' = IF writer = "open" THEN "closed" ELSE writer
  /\ pc' = "done"
  /\ UNCHANGED <<prog, args, glob_result, files, unreadable, divergent, fi, pos, batch, err, filterVars, countVars,
                 TEST_MODE, total_kept, total_scanned, out_file, elseVars>>

\* the traceback has been printed and the interpreter exits: the script never
\* closes the writer on this path; whether the finalizer of the ParquetWriter
\* object runs and closes it during shutdown is not determined by the script
OtherExit ==
  /\ prog = "other" /\ pc = "error"
  /\ writer' \in (IF writer = "open" THEN {"open", "closed"} ELSE {writer})
  /\ pc' = "exited"
  /\ UNCHANGED <<prog, args, glob_result, files, unreadable, divergent, fi, pos, batch, err, filterVars, countVars,
                 TEST_MODE, total_kept, total_scanned, out_file, elseVars>>

NextOther == OtherOpenFile \/ OtherBatch \/ OtherFileEnd \/ OtherFinish \/ OtherExit

SpecOther == InitOther /\ [][NextOther]_vars

(***************************************************************************)
(* create_subset.py and count_filtered.py                                  *)
(***************************************************************************)
YEARS_BACK == 10

\* the dates the scripts may be run on
Todays == { <<2010, 12, 30>>, <<2010, 12, 31>> }

\* the years date arithmetic is carried out in
Years == 1995..2015

\* date.toordinal(): the days from 0001-01-01, which has ordinal 1
DaysBeforeYear(y) ==
  (y - 1) * 365 + ((y - 1) \div 4) - ((y - 1) \div 100) + ((y - 1) \div 400)

RECURSIVE DaysBeforeMonth(_, _)
DaysBeforeMonth(y, m) ==
  IF m = 1 THEN 0 ELSE DaysBeforeMonth(y, m - 1) + DaysInMonth(y, m - 1)

toordinal(dt) == DaysBeforeYear(dt[1]) + DaysBeforeMonth(dt[1], dt[2]) + dt[3]

\* date.fromordinal(n)
fromordinal(n) ==
  LET y == CHOOSE yy \in Years : DaysBeforeYear(yy) < n /\ n <= DaysBeforeYear(yy + 1)
      r == n - DaysBeforeYear(y)
      m == CHOOSE mm \in 1..12 :
             DaysBeforeMonth(y, mm) < r /\ r <= DaysBeforeMonth(y, mm) + DaysInMonth(y, mm)
  IN  << y, m, r - DaysBeforeMonth(y, m) >>

\* cutoff = datetime.date.today() - datetime.timedelta(days=YEARS_BACK * 365)
cutoff_of(t) == fromordinal(toordinal(t) - YEARS_BACK * 365)

\* a & b on dataset expressions: Kleene and (false wins over null)
AndKleene2(x, y) ==
  IF x = "false" \/ y = "false" THEN "false"
  ELSE IF x = "null" \/ y = "null" THEN "null"
  ELSE "true"

and_kleene(a, b) == [i \in 1..Len(a) |-> AndKleene2(a[i], b[i])]

\* reduce(lambda a, b: a & b, [...]) over the masks of the expressions
RECURSIVE ReduceAnd(_)
ReduceAnd(cs) ==
  IF Len(cs) = 1 THEN cs[1]
  ELSE and_kleene(ReduceAnd(SubSeq(cs, 1, Len(cs) - 1)), cs[Len(cs)])

\* the filter expression of both scripts over the rows of one fragment:
\* court_type == "FD", date_filed >= cutoff, attorneys, judges and opinions valid
filters(b, cutoff) ==
  ReduceAnd(<< equal(b, court_type, FD),
               greater_equal_date(b, date_filed, cutoff),
               is_valid(b, attorneys),
               is_valid(b, judges),
               is_valid(b, opinions) >>)

\* dataset.to_table(filter=filters): the rows of the fragments, in order,
\* for which the filter is true
RECURSIVE to_table(_, _, _)
to_table(fs, frags, cutoff) ==
  IF frags = <<>> THEN <<>>
  ELSE LET b == fs[Head(frags)]
       IN  filter(b, filters(b, cutoff)) \o to_table(fs, Tail(frags), cutoff)

\* ds.dataset(..., exclude_invalid_files=True) keeping the invalid files
DiscoverAll(fs, bad) == [j \in 1..Len(fs) |-> j]

\* ds.dataset("hf_data", format="parquet", exclude_invalid_files=True): the
\* files of the directory in path order, without those that are not valid
\* parquet files
RECURSIVE Discover(_, _)
Discover(fs, bad) ==
  IF fs = <<>> THEN <<>>
  ELSE Discover(SubSeq(fs, 1, Len(fs) - 1), bad) \o
       (IF Len(fs) \in bad THEN <<>> ELSE << Len(fs) >>)

InitDataset ==
  /\ prog \in {"subset", "filtered"} /\ pc = "start"
  /\ args = <<>>
  /\ files \in FileSets
  /\ glob_result = SubSeq(PathPool, 1, Len(files))
  /\ unreadable \in Unreadable(files) /\ divergent = {}
  /\ today \in Todays
  /\ fragments = <<>>
  /\ fi = 0 /\ pos = 0 /\ batch = <<>> /\ table = <<>> /\ err = NoErr
  /\ eq_filters = <<>> /\ notnull_filters = <<>> /\ gte_filters = <<>>
  /\ group_cols = <<>> /\ has_opinion = FALSE
  /\ needed_cols = [none |-> TRUE, cols |-> {}]
  /\ total_rows = 0 /\ matched_rows = 0 /\ value_counts = <<>> /\ report = <<>>
  /\ TEST_MODE = FALSE /\ writer = "None" /\ total_kept = 0 /\ total_scanned = 0
  /\ out_file = NoOutput
  /\ OpinionIdle /\ JudgeIdle /\ PmfIdle /\ SpeechIdle

\* create_subset.py line 27, count_filtered.py line 29: the dataset is built
DatasetOpen ==
  /\ prog \in {"subset", "filtered"} /\ pc = "start"
  /\ fragments' = Discover(files, unreadable)
  /\ pc' = "scan"
  /\ UNCHANGED <<prog, args, glob_result, files, unreadable, divergent, fi, pos, batch, err, filterVars,
                 countVars, otherVars, opinionVars, today, judgeVars, pmfVars, speechVars>>

\* create_subset.py line 28, count_filtered.py line 30: the filtered table is
\* read; a dataset without files has an empty schema, in which the fields of
\* the filter expression cannot be resolved
DatasetToTable ==
  /\ prog \in {"subset", "filtered"} /\ pc = "scan"
  /\ IF fragments = <<>>
     THEN /\ err' = Raise("ArrowInvalid", IF prog = "subset" THEN 28 ELSE 30)
          /\ table' = table
          /\ pc' = "error"
     ELSE /\ table' = to_table(files, fragments, cutoff_of(today))
          /\ err' = err
          /\ pc' = IF prog = "subset" THEN "write" ELSE "print"
  /\ UNCHANGED <<prog, args, glob_result, files, unreadable, divergent, fi, pos, batch, filterVars,
                 total_rows, matched_rows, value_counts, report, otherVars, elseVars>>

\* create_subset.py line 32: pq.write_table(table, OUTPUT_FILE)
SubsetWrite ==
  /\ prog = "subset" /\ pc = "write"
  /\ out_file' = [exists |-> TRUE, schema |-> "base", rows |-> table]
  /\ pc' = "print"
  /\ UNCHANGED <<prog, args, glob_result, files, unreadable, divergent, fi, pos, batch, err, filterVars,
                 countVars, TEST_MODE, writer, total_kept, total_scanned, elseVars>>

\* create_subset.py lines 35-42, count_filtered.py lines 33-39: len(table) is
\* printed as the number of rows
DatasetPrint ==
  /\ prog \in {"subset", "filtered"} /\ pc = "print"
  /\ pc' = "done"
  /\ UNCHANGED <<prog, args, glob_result, files, unreadable, divergent, fi, pos, batch, err, filterVars,
                 countVars, otherVars, elseVars>>

NextDataset == DatasetOpen \/ DatasetToTable \/ SubsetWrite \/ DatasetPrint

SpecDataset == InitDataset /\ [][NextDataset]_vars

(***************************************************************************)
(* The four scripts                                                        *)
(***************************************************************************)
Init == InitCount \/ InitOther \/ InitDataset

Next == NextCount \/ NextOther \/ NextDataset

Spec == Init /\ [][Next]_vars


(***************************************************************************)
(* test_opinions_check.py: has_valid_opinion_text                          *)
(***************************************************************************)
\* A chunk of the nested column is an Arrow ListArray: offsets (rows + 1
\* entries, 0-based positions in the flattened children), the validity of
\* each row, and the validity of opinion_text in each flattened child.
IsNondecreasing(o) == \A i \in 1..(Len(o) - 1) : o[i] <= o[i + 1]

ListChunks ==
  UNION { UNION {
    { [offsets |-> o, validity |-> v, text_validity |-> tv] :
        o \in { x \in [1..(n + 1) -> 0..m] : x[1] = 0 /\ x[n + 1] = m /\ IsNondecreasing(x) },
        v \in [1..n -> BOOLEAN],
        tv \in [1..m -> BOOLEAN] } :
    m \in 0..MaxChildren } : n \in 1..MaxListRows }

\* five rows with child counts [2,0,1,2,0]
ExampleChunk ==
  [offsets |-> <<0, 2, 2, 3, 5, 5>>,
   validity |-> <<TRUE, TRUE, TRUE, TRUE, TRUE>>,
   text_validity |-> <<TRUE, FALSE, FALSE, TRUE, TRUE>>]

\* rows of a chunked column
RECURSIVE ChunkedLen(_)
ChunkedLen(ca) == IF ca = <<>> THEN 0 ELSE Len(Head(ca).validity) + ChunkedLen(Tail(ca))

\* pc.is_valid(opinions_chunked): one boolean per row of every chunk
RECURSIVE ChunkedValid(_)
ChunkedValid(ca) == IF ca = <<>> THEN <<>> ELSE Head(ca).validity \o ChunkedValid(Tail(ca))

\* opinions_col[i].as_py() for row i of a chunk
AsPy(c, i) ==
  IF ~c.validity[i] THEN Null
  ELSE List([k \in 1..(c.offsets[i + 1] - c.offsets[i]) |->
               Opinion(IF c.text_validity[c.offsets[i] + k] THEN Text(<<"t">>) ELSE Null)])

\* np.cumsum: inclusive running sums
RECURSIVE NpCumsum(_)
NpCumsum(x) ==
  IF x = <<>> THEN <<>>
  ELSE LET front == NpCumsum(SubSeq(x, 1, Len(x) - 1))
       IN  Append(front, (IF front = <<>> THEN 0 ELSE front[Len(front)]) + x[Len(x)])

\* lines 24-25: cumsum = zeros(len + 1); cumsum[1:] = np.cumsum(text_valid)
Cumsum(tv) == <<0>> \o NpCumsum(tv)

\* line 26 without the subtraction: the running total up to the end of the row
RowSumsRunning(cs, off) ==
  [i \in 1..(Len(off) - 1) |-> cs[off[i + 1] + 1]]

\* line 26: cumsum[offsets_np[1:]] - cumsum[offsets_np[:-1]] (0-based indices)
RowSums(cs, off) ==
  [i \in 1..(Len(off) - 1) |-> cs[off[i + 1] + 1] - cs[off[i] + 1]]

\* line 28 without pc.is_valid: the validity of the row is ignored
ReturnValueNoValidity(ca, rs) ==
  [i \in 1..Len(rs) |-> rs[i] > 0]

\* line 28: pc.and_(pc.is_valid(opinions_chunked), pa.array(row_sums > 0))
ReturnValue(ca, rs) ==
  [i \in 1..Len(rs) |-> ChunkedValid(ca)[i] /\ rs[i] > 0]

InitOpinion ==
  /\ ScanIdle /\ DatasetIdle /\ JudgeIdle /\ PmfIdle /\ SpeechIdle
  /\ opinions_chunked \in { << c >> : c \in ListChunks \cup {ExampleChunk} }
  /\ tpc = "start"
  /\ offsets_np = <<>> /\ text_valid = <<>> /\ cumsum = <<>> /\ row_sums = <<>>
  /\ result = <<>>

\* lines 11-16: arr = chunk(0); the first n + 1 offsets
ReadOffsets ==
  /\ tpc = "start"
  /\ IF Len(opinions_chunked) = 0
     THEN /\ tpc' = "error"
          /\ offsets_np' = offsets_np
     ELSE /\ offsets_np' = SubSeq(opinions_chunked[1].offsets, 1,
                                  Len(opinions_chunked[1].validity) + 1)
          /\ tpc' = "offsets"
  /\ UNCHANGED <<opinions_chunked, text_valid, cumsum, row_sums, result, scanVars, datasetVars, judgeVars, pmfVars, speechVars>>

\* lines 18-22: validity of opinion_text over the flattened children, as 0/1
ReadValidity ==
  /\ tpc = "offsets"
  /\ text_valid' = [k \in 1..Len(opinions_chunked[1].text_validity) |->
                      IF opinions_chunked[1].text_validity[k] THEN 1 ELSE 0]
  /\ tpc' = "validity"
  /\ UNCHANGED <<opinions_chunked, offsets_np, cumsum, row_sums, result, scanVars, datasetVars, judgeVars, pmfVars, speechVars>>

\* lines 24-26: prefix sums and per-row differences
PrefixSums ==
  /\ tpc = "validity"
  /\ cumsum' = Cumsum(text_valid)
  /\ row_sums' = RowSums(Cumsum(text_valid), offsets_np)
  /\ tpc' = "sums"
  /\ UNCHANGED <<opinions_chunked, offsets_np, text_valid, result, scanVars, datasetVars, judgeVars, pmfVars, speechVars>>

\* line 28: pc.and_ raises when its arguments differ in length
Return ==
  /\ tpc = "sums"
  /\ IF ChunkedLen(opinions_chunked) # Len(row_sums)
     THEN /\ tpc' = "error"
          /\ result' = result
     ELSE /\ result' = ReturnValue(opinions_chunked, row_sums)
          /\ tpc' = "done"
  /\ UNCHANGED <<opinions_chunked, offsets_np, text_valid, cumsum, row_sums, scanVars, datasetVars, judgeVars, pmfVars, speechVars>>

NextOpinion == ReadOffsets \/ ReadValidity \/ PrefixSums \/ Return

SpecOpinion == InitOpinion /\ [][NextOpinion]_vars


(***************************************************************************)
(* get_district_judges.py: get_district_judges                             *)
(***************************************************************************)
\* JSON values as json.loads returns them; an object is kept by its keys,
\* which is all that iterating over a dict yields
JStr(s) == [t |-> "string", v |-> s]
JArr(es) == [t |-> "array", v |-> es]
JObj(ks) == [t |-> "object", v |-> ks]
JNum(n) == [t |-> "number", v |-> n]
JNull == [t |-> "null", v |-> <<>>]

\* the JSON documents the remote model may answer with, and their values
JsonPool ==
  << [text |-> <<"[", "\"", "A", "\"", "]">>,
      value |-> JArr(<< JStr(<<"A">>) >>)],
     [text |-> <<"[", "\"", "A", "\"", ",", "\"", "X", "\"", "]">>,
      value |-> JArr(<< JStr(<<"A">>), JStr(<<"X">>) >>)],
     [text |-> <<"[", "\"", "B", "\"", ",", "\"", "A", "\"", ",", "\"", "A", "\"", "]">>,
      value |-> JArr(<< JStr(<<"B">>), JStr(<<"A">>), JStr(<<"A">>) >>)],
     [text |-> <<"[", "]">>,
      value |-> JArr(<<>>)],
     [text |-> <<"[", "7", ",", "[", "\"", "A", "\"", "]", ",", "n", "u", "l", "l", "]">>,
      value |-> JArr(<< JNum(7), JArr(<< JStr(<<"A">>) >>), JNull >>)],
     [text |-> <<"{", "\"", "A", "\"", ":", "\"", "B", "\"", "}">>,
      value |-> JObj(<< <<"A">> >>)],
     [text |-> <<"\"", "A", "B", "\"">>,
      value |-> JStr(<<"A", "B">>)],
     [text |-> <<"7">>,
      value |-> JNum(7)],
     [text |-> <<"n", "u", "l", "l">>,
      value |-> JNull] >>

\* answers that are not JSON documents
NotJson == { <<"o", "o", "p", "s">>, <<>> }

\* json.loads(text): the value of a JSON document, JSONDecodeError otherwise
json_loads(text) ==
  IF \E j \in 1..Len(JsonPool) : JsonPool[j].text = text
  THEN [ok |-> TRUE,
        value |-> JsonPool[CHOOSE j \in 1..Len(JsonPool) : JsonPool[j].text = text].value]
  ELSE [ok |-> FALSE, value |-> JNull]

\* the grave accent (U+0060), of which a markdown code fence has three
grave == "grave"
fence == <<grave, grave, grave>>
newline == <<"\n">>
Whitespace == {" ", "\n", "\t", "\r"}

startswith(s, prefix) == Len(s) >= Len(prefix) /\ SubSeq(s, 1, Len(prefix)) = prefix
endswith(s, suffix) ==
  Len(s) >= Len(suffix) /\ SubSeq(s, Len(s) - Len(suffix) + 1, Len(s)) = suffix

\* str.strip()
RECURSIVE strip(_)
strip(s) ==
  IF s = <<>> THEN s
  ELSE IF s[1] \in Whitespace THEN strip(Tail(s))
  ELSE IF s[Len(s)] \in Whitespace THEN strip(SubSeq(s, 1, Len(s) - 1))
  ELSE s

\* lines 67-71: markdown code fences are removed
strip_fences(c) ==
  IF startswith(c, fence)
  THEN LET c1 == IF Contains(newline, c) THEN SplitOnce(c, newline)[2]
                 ELSE SubSeq(c, 4, Len(c))
           c2 == IF endswith(c1, fence) THEN SubSeq(c1, 1, Len(c1) - 3) ELSE c1
       IN  strip(c2)
  ELSE c

\* the ways the remote model may dress a text up
Dressings(t) ==
  { t,
    <<" ">> \o t \o newline,
    fence \o <<"j", "s", "o", "n">> \o newline \o t \o newline \o fence,
    fence \o newline \o t,
    fence \o t \o fence,
    fence \o <<"j", "s", "o", "n">> \o t \o fence }

Contents ==
  UNION { Dressings(t) : t \in { JsonPool[j].text : j \in 1..Len(JsonPool) } \cup NotJson }

\* what the request may come back with: an exception of requests.post, a
\* response with an error status, or a 200 response whose body is not JSON
\* ("not_json"), JSON without the expected keys, a JSON list, a message with
\* null content, or a message with a text
Bodies == {"not_json", "no_choices", "empty_choices", "top_level_list", "null_content"}

Responses ==
  { [kind |-> k, status |-> 0, body |-> "none", text |-> <<>>] :
      k \in {"ConnectionError", "ConnectTimeout", "Timeout", "TooManyRedirects"} }
  \cup { [kind |-> "response", status |-> st, body |-> "none", text |-> <<>>] : st \in {429, 500} }
  \cup { [kind |-> "response", status |-> 200, body |-> b, text |-> <<>>] : b \in Bodies }
  \cup { [kind |-> "response", status |-> 200, body |-> "text", text |-> c] : c \in Contents }

NoResponse == [kind |-> "none", status |-> 0, body |-> "none", text |-> <<>>]

\* the except clauses of lines 79-91 without the last one (except Exception)
handler_without_catch_all(exc) ==
  IF exc \in {"ConnectionError", "ConnectTimeout"} THEN 79
  ELSE IF exc = "Timeout" THEN 82
  ELSE IF exc \in {"JSONDecodeError", "KeyError", "IndexError"} THEN 85
  ELSE 0

\* the except clause that catches an exception, by its line; 0 if none does.
\* ConnectTimeout is a ConnectionError and a Timeout; every kind here is an
\* Exception
handler(exc) ==
  IF exc \in {"ConnectionError", "ConnectTimeout"} THEN 79
  ELSE IF exc = "Timeout" THEN 82
  ELSE IF exc \in {"JSONDecodeError", "KeyError", "IndexError"} THEN 85
  ELSE 89

\* "for name in result": the elements the value yields, TypeError if none
Iterate(val) ==
  IF val.t = "array" THEN [ok |-> TRUE, items |-> val.v]
  ELSE IF val.t = "object" THEN [ok |-> TRUE, items |-> [i \in 1..Len(val.v) |-> JStr(val.v[i])]]
  ELSE IF val.t = "string" THEN [ok |-> TRUE, items |-> [i \in 1..Len(val.v) |-> JStr(<< val.v[i] >>)]]
  ELSE [ok |-> FALSE, items |-> <<>>]

\* name in judges_list, the list holding strings
InList(name, jl) == name.t = "string" /\ \E i \in 1..Len(jl) : jl[i] = name.v

\* line 76: [name for name in result if name in judges_list]
RECURSIVE valid(_, _)
valid(items, jl) ==
  IF items = <<>> THEN <<>>
  ELSE (IF InList(Head(items), jl) THEN << Head(items).v >> ELSE <<>>)
       \o valid(Tail(items), jl)

Names == { <<"A">>, <<"B">> }
JudgeLists == UNION { [1..n -> Names] : n \in 0..MaxJudges }
Locations == { <<"S", "D">>, <<>> }

InitJudges ==
  /\ ScanIdle /\ OpinionIdle /\ DatasetIdle /\ PmfIdle /\ SpeechIdle
  /\ location_description \in Locations
  /\ judges_list \in JudgeLists
  /\ jpc = "start"
  /\ response = NoResponse /\ content = <<>> /\ parsed = [t |-> "none"]
  /\ returned = <<>> /\ raised = "none"

\* an exception raised inside the try block: the matching except clause
\* returns [], an exception no clause matches leaves the function
Except(exc) ==
  IF handler(exc) # 0
  THEN /\ returned' = <<>> /\ raised' = raised /\ jpc' = "returned"
  ELSE /\ returned' = returned /\ raised' = exc /\ jpc' = "raised"

\* lines 27-62: the prompt is built and posted
Post ==
  /\ jpc = "start"
  /\ \E r \in Responses :
       /\ response' = r
       /\ IF r.kind # "response" THEN Except(r.kind)
          ELSE /\ jpc' = "status" /\ UNCHANGED <<returned, raised>>
  /\ UNCHANGED <<location_description, judges_list, content, parsed,
                 scanVars, opinionVars, datasetVars, pmfVars, speechVars>>

\* line 63: response.raise_for_status()
RaiseForStatus ==
  /\ jpc = "status"
  /\ IF response.status >= 400 THEN Except("HTTPError")
     ELSE /\ jpc' = "body" /\ UNCHANGED <<returned, raised>>
  /\ UNCHANGED <<location_description, judges_list, response, content, parsed,
                 scanVars, opinionVars, datasetVars, pmfVars, speechVars>>

\* line 64: response.json()["choices"][0]["message"]["content"].strip()
ReadContent ==
  /\ jpc = "body"
  /\ IF response.body = "text"
     THEN /\ content' = strip(response.text)
          /\ jpc' = "fences" /\ UNCHANGED <<returned, raised>>
     ELSE /\ content' = content
          /\ Except(CASE response.body = "not_json" -> "JSONDecodeError"
                      [] response.body = "no_choices" -> "KeyError"
                      [] response.body = "empty_choices" -> "IndexError"
                      [] response.body = "top_level_list" -> "TypeError"
                      [] response.body = "null_content" -> "AttributeError")
  /\ UNCHANGED <<location_description, judges_list, response, parsed,
                 scanVars, opinionVars, datasetVars, pmfVars, speechVars>>

\* lines 67-71
StripFences ==
  /\ jpc = "fences"
  /\ content' = strip_fences(content)
  /\ jpc' = "loads"
  /\ UNCHANGED <<location_description, judges_list, response, parsed, returned, raised,
                 scanVars, opinionVars, datasetVars, pmfVars, speechVars>>

\* line 73: result = json.loads(content)
JsonLoads ==
  /\ jpc = "loads"
  /\ IF json_loads(content).ok
     THEN /\ parsed' = json_loads(content).value
          /\ jpc' = "validate" /\ UNCHANGED <<returned, raised>>
     ELSE /\ parsed' = parsed
          /\ Except("JSONDecodeError")
  /\ UNCHANGED <<location_description, judges_list, response, content,
                 scanVars, opinionVars, datasetVars, pmfVars, speechVars>>

\* lines 76-77: the names not in judges_list are dropped, the rest returned
Validate ==
  /\ jpc = "validate"
  /\ IF Iterate(parsed).ok
     THEN /\ returned' = valid(Iterate(parsed).items, judges_list)
          /\ raised' = raised
          /\ jpc' = "returned"
     ELSE Except("TypeError")
  /\ UNCHANGED <<location_description, judges_list, response, content, parsed,
                 scanVars, opinionVars, datasetVars, pmfVars, speechVars>>

NextJudges == Post \/ RaiseForStatus \/ ReadContent \/ StripFences \/ JsonLoads \/ Validate

SpecJudges == InitJudges /\ [][NextJudges]_vars

(***************************************************************************)
(* judge_probability.py and the pipeline of app.py                         *)
(***************************************************************************)
\* line 17: prob = 1.0 / len(judges), kept as the exact fraction <<1, n>>
prob_of(names) == << 1, Len(names) >>

\* line 18: {name: prob for name in judges}, a dict in insertion order
RECURSIVE comprehension(_, _)
comprehension(names, prob) ==
  IF names = <<>> THEN <<>>
  ELSE DictSet(comprehension(SubSeq(names, 1, Len(names) - 1), prob), names[Len(names)], prob)

\* lines 15-18
get_judge_pmf(names) ==
  IF names = <<>> THEN <<>> ELSE comprehension(names, prob_of(names))

\* app.py lines 300-303 (main.py lines 12-15): the list get_district_judges
\* returned is handed to get_judge_pmf
GetJudgePmf ==
  /\ jpc = "returned" /\ ppc = "judges"
  /\ judge_pmf' = get_judge_pmf(returned)
  /\ ppc' = "pmf"
  /\ UNCHANGED <<judgeVars, scanVars, opinionVars, datasetVars, speechVars>>

NextPipeline == NextJudges \/ GetJudgePmf

SpecPipeline == InitJudges /\ [][NextPipeline]_vars

(***************************************************************************)
(* speech_input.py: record_until_silence                                   *)
(***************************************************************************)
\* line 22, in milliseconds
CHUNK_DURATION == 100

\* the values of max_duration: from one chunk up to the default MAX_DURATION
MaxDurations == { t \in CHUNK_DURATION..MAX_DURATION : t % 50 = 0 }

\* the ambient RMS levels the calibration sample can have
AmbientRms == {0, 20}

\* line 35: max(ambient_rms * THRESHOLD_MULTIPLIER, 50)
THRESHOLD_MULTIPLIER == 3
calibrate_threshold(ambient_rms) ==
  IF ambient_rms * THRESHOLD_MULTIPLIER >= 50 THEN ambient_rms * THRESHOLD_MULTIPLIER ELSE 50

\* the chunks of int16 samples the microphone can deliver: digital silence,
\* RMS 50, RMS 55, and samples of +-200 (RMS 200)
ChunkPool ==
  { [i \in 1..ChunkSamples |-> 0], [i \in 1..ChunkSamples |-> 50],
    [i \in 1..ChunkSamples |-> 55],
    [i \in 1..ChunkSamples |-> IF i % 2 = 1 THEN 0 - 200 ELSE 200] }

\* line 74, 76: np.sqrt(np.mean(data.astype(np.float32) ** 2)) > threshold,
\* decided on the squares
rms_exceeds(data, th) ==
  SumSeq([i \in 1..Len(data) |-> data[i] * data[i]]) > th * th * Len(data)

\* lines 54, 55: int(duration / CHUNK_DURATION)
chunks_in(duration) == duration \div CHUNK_DURATION

\* the loop body without the reset of line 78
loop_body_without_reset(sc, started, data, th, needed) ==
  IF rms_exceeds(data, th)
  THEN [speech_started |-> TRUE, silence_count |-> sc, brk |-> FALSE]
  ELSE IF started
  THEN [speech_started |-> started, silence_count |-> sc + 1, brk |-> sc + 1 >= needed]
  ELSE [speech_started |-> started, silence_count |-> sc, brk |-> FALSE]

\* lines 74-82: what one chunk does to speech_started and silence_count, and
\* whether the loop is left by break
loop_body(sc, started, data, th, needed) ==
  IF rms_exceeds(data, th)
  THEN [speech_started |-> TRUE, silence_count |-> 0, brk |-> FALSE]
  ELSE IF started
  THEN [speech_started |-> started, silence_count |-> sc + 1, brk |-> sc + 1 >= needed]
  ELSE [speech_started |-> started, silence_count |-> sc, brk |-> FALSE]

\* a concatenation that leaves out the first array
RECURSIVE concatenate_tail(_)
concatenate_tail(cs) ==
  IF Len(cs) <= 1 THEN <<>> ELSE cs[2] \o concatenate_tail(Tail(cs))

\* line 88: np.concatenate(chunks)
RECURSIVE concatenate(_)
concatenate(cs) == IF cs = <<>> THEN <<>> ELSE Head(cs) \o concatenate(Tail(cs))

InitRecord ==
  /\ ScanIdle /\ OpinionIdle /\ DatasetIdle /\ JudgeIdle /\ PmfIdle
  /\ max_duration \in MaxDurations
  /\ rpc = "start" /\ threshold = 0
  /\ silence_chunks_needed = 0 /\ max_chunks = 0
  /\ mic = <<>> /\ stream = "none" /\ chunks = <<>>
  /\ silence_count = 0 /\ speech_started = FALSE /\ audio = <<>>

\* lines 51-67: calibration, the chunk counts, the stream is started
Calibrate ==
  /\ rpc = "start"
  /\ \E a \in AmbientRms : threshold' = calibrate_threshold(a)
  /\ silence_chunks_needed' = chunks_in(SILENCE_DURATION)
  /\ max_chunks' = chunks_in(max_duration)
  /\ stream' = "active"
  /\ rpc' = "listen"
  /\ UNCHANGED <<max_duration, mic, chunks, silence_count, speech_started, audio,
                 scanVars, opinionVars, datasetVars, judgeVars, pmfVars>>

\* lines 70-82: one iteration of `for _ in range(max_chunks)`
Listen ==
  /\ rpc = "listen"
  /\ Len(chunks) < max_chunks
  /\ \E data \in ChunkPool :
       LET r == loop_body(silence_count, speech_started, data, threshold,
                          silence_chunks_needed)
       IN  /\ mic' = Append(mic, data)
           /\ chunks' = Append(chunks, data)
           /\ speech_started' = r.speech_started
           /\ silence_count' = r.silence_count
           /\ rpc' = IF r.brk THEN "break" ELSE "listen"
  /\ UNCHANGED <<max_duration, threshold, silence_chunks_needed, max_chunks, stream, audio,
                 scanVars, opinionVars, datasetVars, judgeVars, pmfVars>>

\* lines 83-88: after the break or the last iteration the stream is stopped
\* and closed and the chunks are returned as one array
Finally ==
  /\ \/ rpc = "break"
     \/ rpc = "listen" /\ Len(chunks) >= max_chunks
  /\ stream' = "closed"
  /\ audio' = concatenate(chunks)
  /\ rpc' = "returned"
  /\ UNCHANGED <<max_duration, threshold, silence_chunks_needed, max_chunks, mic, chunks,
                 silence_count, speech_started,
                 scanVars, opinionVars, datasetVars, judgeVars, pmfVars>>

NextRecord == Calibrate \/ Listen \/ Finally

SpecRecord == InitRecord /\ [][NextRecord]_vars

\* the statements of the function are executed one after the other and the
\* stream delivers every chunk that is read
SpecRecordFair == SpecRecord /\ WF_vars(NextRecord)

(***************************************************************************)
(* Properties                                                              *)
(***************************************************************************)

\* C1: in the scan loops of count.py and otherscript.py, after every batch
\* and at the end of the run, the matched counter is at most the scanned
\* counter and both are non-negative integers.
C1_MatchedAtMostScanned ==
  /\ total_rows \in Nat /\ matched_rows \in Nat
  /\ matched_rows <= total_rows
  /\ total_scanned \in Nat /\ total_kept \in Nat
  /\ total_kept <= total_scanned

\* a finished count.py run over several batches that matched some rows, not all
C1_Witness ==
  /\ prog = "count" /\ pc = "done"
  /\ total_rows > BatchSize
  /\ matched_rows > 0 /\ matched_rows < total_rows

\* C2: has_valid_opinion_text returns one boolean per row of the column, and
\* the boolean of a row equals the scalar reference of count.py: the list is
\* non-null and some child has a non-null opinion_text.
C2_VectorizedEqualsScalar ==
  /\ tpc # "error"
  /\ tpc = "done" =>
       /\ Len(result) = ChunkedLen(opinions_chunked)
       /\ \A i \in 1..Len(result) :
            result[i] = HasOpinionScalar(AsPy(opinions_chunked[1], i))

\* the function returned for a column holding a null row that spans children
\* with text, a row with text, and a non-null row whose children have none
C2_Witness ==
  /\ tpc = "done"
  /\ \E i \in 1..Len(result) : ~opinions_chunked[1].validity[i] /\ row_sums[i] > 0
  /\ \E i \in 1..Len(result) : result[i]
  /\ \E i \in 1..Len(result) :
       /\ opinions_chunked[1].validity[i] /\ row_sums[i] = 0
       /\ opinions_chunked[1].offsets[i + 1] > opinions_chunked[1].offsets[i]

\* the number of children of row i of a chunk whose opinion_text is non-null
ValidChildren(c, i) ==
  Cardinality({ k \in (c.offsets[i] + 1)..c.offsets[i + 1] : c.text_validity[k] })

\* C3: with the exclusive prefix sums, cumsum[offsets[i+1]] - cumsum[offsets[i]]
\* is the number of children of row i with a non-null target field; offsets
\* [0,2,2,3,5,5] with validity [T,F,F,T,T] give [T,F,F,T,F].
C3_PrefixSumCountsChildren ==
  /\ tpc \in {"sums", "done"} =>
       /\ Len(cumsum) = Len(opinions_chunked[1].text_validity) + 1
       /\ cumsum[1] = 0
       /\ \A k \in 1..Len(text_valid) : cumsum[k + 1] = cumsum[k] + text_valid[k]
       /\ \A i \in 1..Len(row_sums) : row_sums[i] = ValidChildren(opinions_chunked[1], i)
  /\ (tpc = "done" /\ opinions_chunked = << ExampleChunk >>) =>
       result = <<TRUE, FALSE, FALSE, TRUE, FALSE>>

\* the function returned for the example column
C3_Witness ==
  /\ tpc = "done"
  /\ opinions_chunked = << ExampleChunk >>
  /\ row_sums = <<1, 0, 0, 2, 0>>
  /\ result = <<TRUE, FALSE, FALSE, TRUE, FALSE>>


\* the predicates of the run of count.py, the existence test included
AllPreds ==
  PredList(Filters) \o
  (IF has_opinion THEN << [kind |-> "exists", col |-> opinions, val |-> <<>>] >> ELSE <<>>)

\* one predicate as a mask over a batch; the existence test is never null
CondOf(pr, b) ==
  IF pr.kind = "exists"
  THEN [i \in 1..Len(b) |-> IF HasOpinionScalar(Cell(b, i, opinions)) THEN "true" ELSE "false"]
  ELSE PredCond(pr, b)

\* the masks of a non-empty list of predicates AND-ed from left to right
RECURSIVE AndInOrder(_, _)
AndInOrder(preds, b) ==
  IF Len(preds) = 1 THEN CondOf(preds[1], b)
  ELSE and_(AndInOrder(SubSeq(preds, 1, Len(preds) - 1), b), CondOf(preds[Len(preds)], b))

\* the rows of a batch that survive the predicates evaluated in the given order
SurvivorsInOrder(preds, b) ==
  IF preds = <<>> THEN b ELSE filter(b, AndInOrder(preds, b))

Orderings(n) == { f \in [1..n -> 1..n] : \A i, j \in 1..n : f[i] = f[j] => i = j }

\* C4: the rows of a batch that survive the filtering of count.py are the
\* same for every order in which the equality, not-null, range and existence
\* predicates are evaluated and AND-ed.
C4_PredicateOrderIrrelevant ==
  (prog = "count" /\ batch # <<>> /\ err = NoErr) =>
    \A f \in Orderings(Len(AllPreds)) :
      SurvivorsInOrder([i \in 1..Len(AllPreds) |-> AllPreds[f[i]]], batch) = table

\* a batch filtered by two predicates where some row has a null under one
\* predicate and true under the other, some row survives and some does not
C4_Witness ==
  /\ prog = "count" /\ err = NoErr
  /\ Len(AllPreds) >= 2
  /\ table # <<>> /\ Len(table) < Len(batch)
  /\ \E i \in 1..Len(batch) : \E j, k \in 1..Len(AllPreds) :
       /\ CondOf(AllPreds[j], batch)[i] = "null"
       /\ CondOf(AllPreds[k], batch)[i] = "true"

\* a histogram as a mapping key -> count, its insertion order forgotten
HistCounts(h) ==
  [k \in { h[i][1] : i \in 1..Len(h) } |-> h[CHOOSE i \in 1..Len(h) : h[i][1] = k][2]]

\* what a run reports: counts, histograms as mappings, whether it aborted
Outcome(tr, mr, vc, e) ==
  [scanned |-> tr, matched |-> mr,
   hist |-> [c \in DOMAIN vc |-> HistCounts(vc[c])],
   aborted |-> e # NoErr]

OutcomeOf(r) == Outcome(r.total_rows, r.matched_rows, r.value_counts, r.err)

\* C5: for any list of tokens and any permutation of it, a run of count.py over
\* the same files yields the same scanned count, matched count and histograms.
C5_TokenOrderIrrelevant ==
  (prog = "count" /\ pc = "done") =>
    \A f \in Orderings(Len(args)) :
      OutcomeOf(ScanAll(Argv([i \in 1..Len(args) |-> args[f[i]]]), files))
        = Outcome(total_rows, matched_rows, value_counts, err)

\* a row satisfies one token taken alone as a filter
RowSatisfies(tok, r) ==
  LET p == ParseArg(NoFilters, tok)
      need == [none |-> TRUE, cols |-> {}]
      preds == PredList(p) \o
               (IF p.has_opinion THEN << [kind |-> "exists", col |-> opinions, val |-> <<>>] >>
                ELSE <<>>)
  IN  \A j \in 1..Len(preds) :
        /\ preds[j].kind = "exists" \/ PredErr(preds[j], Columns(need)) = NoErr
        /\ CondOf(preds[j], << r >>)[1] = "true"

\* C6: a row is counted as matched iff it satisfies every predicate token of
\* the command line, AND-ed, also when several tokens name the same column.
C6_MatchedIffEveryToken ==
  (prog = "count" /\ batch # <<>> /\ err = NoErr) =>
    table = TakeRows(batch, [i \in 1..Len(batch) |->
                               \A a \in 1..Len(args) : RowSatisfies(TokenPool[args[a]], batch[i])])


\* what the range token means for one value: compared as dates when the
\* operand is an ISO date, as raw text otherwise; a null never passes
RangeHolds(pr, x) ==
  IF IsIsoDate(pr.val)
  THEN ~IsNull(x) /\ x.t = "date32" /\ DateGe(x.v, fromisoformat(pr.val))
  ELSE ~IsNull(x) /\ x.t = "string" /\ TextGe(x.v, pr.val)

\* the rows of the last batch that pass every predicate, range tokens read
\* as RangeHolds
RangeExpectedTable ==
  TakeRows(batch,
           [i \in 1..Len(batch) |->
              \A j \in 1..Len(AllPreds) :
                IF AllPreds[j].kind = "gte"
                THEN RangeHolds(AllPreds[j], RowPool[batch[i]][AllPreds[j].col])
                ELSE CondOf(AllPreds[j], << batch[i] >>)[1] = "true"])

\* some range token has an operand that is no date, on a column that is no text
FallbackOnOtherType ==
  \E j \in 1..Len(gte_filters) :
    ~IsIsoDate(gte_filters[j][2]) /\ Schema[gte_filters[j][1]] # "string"

Kept == ScanAll(Argv(args), files).kept

\* the surviving rows whose value in column col renders to key
KeptWithKey(col, key) ==
  { n \in 1..Len(Kept) : Render(RowPool[Kept[n]][col]) = key }

\* C8: at the end of the run the histogram of every group-by column counts,
\* for every key, the surviving rows whose value renders to that key (null
\* under the sentinel key), and nothing else.
C8_HistogramCountsSurvivors ==
  (prog = "count" /\ pc = "done") =>
    \A g \in 1..Len(group_cols) :
      LET col == group_cols[g]
          h == value_counts[col]
      IN  /\ \A i \in 1..Len(h) : h[i][2] = Cardinality(KeptWithKey(col, h[i][1]))
          /\ \A n \in 1..Len(Kept) :
               \E i \in 1..Len(h) : h[i][1] = Render(RowPool[Kept[n]][col])

\* the position in the scan of the first surviving row rendering to key
FirstSeen(col, key) ==
  CHOOSE n \in KeptWithKey(col, key) : \A m \in KeptWithKey(col, key) : n <= m

\* C9: each histogram is reported in descending order of count, keys with
\* equal counts in the order of their first insertion during the scan.
C9_ReportDescendingStable ==
  (prog = "count" /\ pc = "done") =>
    \A g \in 1..Len(report) :
      LET col == report[g][1]
          sc == report[g][2]
          h == value_counts[col]
      IN  /\ col = group_cols[g]
          /\ Len(sc) = Len(h)
          /\ { sc[i] : i \in 1..Len(sc) } = { h[i] : i \in 1..Len(h) }
          /\ \A i, j \in 1..Len(sc) :
               i < j => /\ sc[i][2] >= sc[j][2]
                        /\ sc[i][2] = sc[j][2] =>
                             FirstSeen(col, sc[i][1]) < FirstSeen(col, sc[j][1])

\* a report in which two keys with equal counts are listed against the order
\* of their values, below a key with a larger count inserted after them
C9_Witness ==
  /\ prog = "count" /\ pc = "done"
  /\ \E g \in 1..Len(report) :
       LET sc == report[g][2]
       IN  \E i, j \in 1..Len(sc) :
             i < j /\ sc[i][2] = sc[j][2] /\ TextLess(sc[j][1], sc[i][1])

\* the files of group n under an assignment of the files to groups, in order
RECURSIVE FilesOf(_, _, _)
FilesOf(fs, g, n) ==
  IF fs = <<>> THEN <<>>
  ELSE (IF Head(g) = n THEN << Head(fs) >> ELSE <<>>) \o FilesOf(Tail(fs), Tail(g), n)

\* key-wise sum of two histograms given as mappings
MergeHist(x, y) ==
  [k \in DOMAIN x \cup DOMAIN y |->
     (IF k \in DOMAIN x THEN x[k] ELSE 0) + (IF k \in DOMAIN y THEN y[k] ELSE 0)]

\* the additive combination of two outcomes
Merge(a, b) ==
  [scanned |-> a.scanned + b.scanned,
   matched |-> a.matched + b.matched,
   hist |-> [c \in DOMAIN a.hist \cup DOMAIN b.hist |->
               MergeHist(IF c \in DOMAIN a.hist THEN a.hist[c] ELSE <<>>,
                         IF c \in DOMAIN b.hist THEN b.hist[c] ELSE <<>>)],
   aborted |-> a.aborted \/ b.aborted]

\* the outcome of the scan of count.py over group n of the files
GroupOutcome(g, n) == OutcomeOf(ScanAll(Argv(args), FilesOf(files, g, n)))

\* C10: for every split of the files into groups, adding the scanned counts,
\* matched counts and histogram counts computed for each group alone gives
\* the counts of one pass over all files; the addition is commutative and
\* associative.
C10_MergeOfGroupsIsWholeScan ==
  (prog = "count" /\ pc = "done") =>
    LET whole == Outcome(total_rows, matched_rows, value_counts, err)
    IN  /\ \A g \in [1..Len(files) -> {1, 2}] :
             /\ Merge(GroupOutcome(g, 1), GroupOutcome(g, 2)) = whole
             /\ Merge(GroupOutcome(g, 2), GroupOutcome(g, 1)) = whole
        /\ \A g \in [1..Len(files) -> {1, 2, 3}] :
             /\ Merge(Merge(GroupOutcome(g, 1), GroupOutcome(g, 2)), GroupOutcome(g, 3)) = whole
             /\ Merge(GroupOutcome(g, 1), Merge(GroupOutcome(g, 2), GroupOutcome(g, 3))) = whole

\* a finished run over several files, each of which matched rows counted
\* under the same key of a group-by histogram
C10_Witness ==
  /\ prog = "count" /\ pc = "done"
  /\ Len(files) >= 2 /\ matched_rows < total_rows
  /\ \A f \in 1..Len(files) : ScanAll(Argv(args), << files[f] >>).matched_rows >= 1
  /\ \E c \in DOMAIN value_counts : \E i \in 1..Len(value_counts[c]) :
       value_counts[c][i][2] >= 2


\* s is an initial segment of t
IsPrefix(s, t) == Len(s) <= Len(t) /\ SubSeq(t, 1, Len(s)) = s

\* C11: the writer of otherscript.py only moves None -> open -> closed; the
\* output file changes only by a write through a writer that is open and was
\* None or open before, and a write through the writer already open appends
\* to the same file; a run that reaches the end of the input ends with the
\* writer None or closed.
C11_SinkLifecycle ==
  /\ [][prog = "other" =>
          /\ writer' # writer =>
               \/ writer = "None" /\ writer' = "open"
               \/ writer = "open" /\ writer' = "closed"
          /\ out_file' # out_file =>
               /\ writer \in {"None", "open"} /\ writer' = "open"
               /\ writer = "open" =>
                    /\ out_file'.schema = out_file.schema
                    /\ IsPrefix(out_file.rows, out_file'.rows)]_vars
  /\ [](prog = "other" => (out_file.exists <=> writer # "None"))
  /\ [](prog = "other" /\ pc = "done" => writer \in {"None", "closed"})

\* a finished run whose writer was opened, written to by two batches and closed
C11_Witness ==
  /\ prog = "other" /\ pc = "done" /\ writer = "closed"
  /\ Len(out_file.rows) >= 2 /\ fi >= 2


\* the rows of a list of batches that otherscript.py keeps, in order
RECURSIVE SubsetAll(_)
SubsetAll(bs) == IF bs = <<>> THEN <<>> ELSE Subset(Head(bs)) \o SubsetAll(Tail(bs))

\* the number of rows of file j delivered in batches so far
Delivered(j) == IF j < fi THEN Len(files[j]) ELSE IF j = fi THEN pos ELSE 0

\* the surviving rows of the batches of file j processed so far
KeptOfFile(j) == SubsetAll(Batches(SubSeq(files[j], 1, Delivered(j)), BatchSize))

\* the files that had a batch with a surviving row so far
FilesWithKept == { j \in 1..Len(files) : KeptOfFile(j) # <<>> }

\* C12: in otherscript.py the writer is None exactly while no batch processed
\* so far had a surviving row; once open, the schema of the output is that of
\* the first batch with a surviving row, and every batch appended after it
\* has that schema (a batch of another schema is refused with an error).
C12_LazyOpenOnFirstSurvivor ==
  prog = "other" =>
    /\ writer = "None" <=> FilesWithKept = {}
    /\ writer # "None" =>
         LET first == CHOOSE j \in FilesWithKept : \A k \in FilesWithKept : j <= k
         IN  /\ out_file.schema = FileSchema(first)
             /\ \A j \in FilesWithKept :
                  \/ FileSchema(j) = out_file.schema
                  \/ j = fi /\ err = Raise("ValueError", 61) /\ pc \in {"error", "exited"}

\* the writer opened only at a later batch, after a batch without surviving
\* rows, and a further batch was appended
C12_Witness ==
  /\ prog = "other" /\ writer = "open"
  /\ fi = 3 /\ KeptOfFile(1) = <<>> /\ KeptOfFile(2) # <<>> /\ KeptOfFile(3) # <<>>
  /\ Len(out_file.rows) = 2


\* the scan loop of count.py has run to its end: the run finished, or failed
\* in the report
CountLoopCompleted ==
  /\ prog = "count" /\ fi = Len(files)
  /\ \/ pc = "done"
     \/ pc = "error" /\ err.line = 137

\* C13: a run whose filters matched no row creates no output file
\* (otherscript.py, create_subset.py) and, in count.py, reports every
\* requested group-by histogram, empty.
C13_ZeroMatchesNoOutput ==
  /\ (prog = "other" /\ pc = "done" /\ total_kept = 0) => ~out_file.exists
  /\ (prog = "subset" /\ pc = "done" /\ Len(table) = 0) => ~out_file.exists
  /\ (CountLoopCompleted /\ matched_rows = 0) =>
       /\ pc = "done"
       /\ Len(report) = Len(group_cols)
       /\ \A g \in 1..Len(report) : report[g] = << group_cols[g], <<>> >>

\* C14: with no data file in the input directory, count.py (whatever its
\* command line) and otherscript.py never fail, and they finish with the
\* scanned and matched counters at 0 and without an output file.
C14_EmptyDirectoryCompletes ==
  (files = <<>> /\ prog \in {"count", "other"}) =>
    /\ err = NoErr /\ pc \notin {"error", "exited"}
    /\ pc = "done" =>
         /\ total_rows = 0 /\ matched_rows = 0
         /\ total_scanned = 0 /\ total_kept = 0
         /\ ~out_file.exists


\* C15: whenever otherscript.py stops, at the end of the input or after a
\* fatal error while reading, filtering or writing a batch, a writer that had
\* been opened has been closed.
C15_SinkClosedOnEveryExit ==
  (prog = "other" /\ pc \in {"done", "exited"}) => writer # "open"


\* a row satisfies every predicate of otherscript.py
RowPasses(r) ==
  LET row == RowPool[r]
  IN  /\ row[court_type] = Text(FD)
      /\ row[court_jurisdiction] = Text(USA_Federal)
      /\ ~IsNull(row[attorneys]) /\ ~IsNull(row[judges])
      /\ ~IsNull(row[date_filed]) /\ DateGe(row[date_filed].v, <<2001, 1, 1>>)
      /\ ~IsNull(row[court_short_name]) /\ ~IsNull(row[court_full_name])
      /\ ~IsNull(row[opinions])
      /\ \E k \in 1..Len(row[opinions].v) : ~IsNull(row[opinions].v[k].opinion_text)

\* the rows scanned so far, in scan order
RECURSIVE ScannedUpTo(_)
ScannedUpTo(j) ==
  IF j = 0 THEN <<>> ELSE ScannedUpTo(j - 1) \o SubSeq(files[j], 1, Delivered(j))

ScannedRows == ScannedUpTo(Len(files))

\* C16: after a complete run of otherscript.py the rows of the output file
\* are the scanned rows that satisfy every predicate, in scan order, each once;
\* their number is total_kept, and reading the file back gives those rows
\* (no file exists when there is none).
C16_OutputIsMatchedRowsInOrder ==
  (prog = "other" /\ pc = "done") =>
    LET expected == SelectSeq(ScannedRows, RowPasses)
    IN  /\ out_file.rows = expected
        /\ total_kept = Len(expected)
        /\ total_scanned = Len(ScannedRows)
        /\ IF expected = <<>> THEN ~out_file.exists
           ELSE read_table(out_file, writer) = [ok |-> TRUE, rows |-> expected]

\* a complete run that wrote two rows from different batches and dropped a
\* row scanned between them
C16_Witness ==
  /\ prog = "other" /\ pc = "done" /\ ~TEST_MODE
  /\ Len(ScannedRows) = 3 /\ Len(files) >= 2
  /\ RowPasses(ScannedRows[1]) /\ ~RowPasses(ScannedRows[2]) /\ RowPasses(ScannedRows[3])
  /\ read_table(out_file, writer).rows = << ScannedRows[1], ScannedRows[3] >>


\* the columns the tokens of a parsed command line refer to
ReferencedCols(p) ==
  DictKeys(p.eq_filters) \cup { p.notnull_filters[i] : i \in 1..Len(p.notnull_filters) }
    \cup DictKeys(p.gte_filters) \cup { p.group_cols[i] : i \in 1..Len(p.group_cols) }

\* the command line of the run refers to a column that no file has
RefersToAbsentColumn ==
  \E col \in ReferencedCols(ParseArgv(Argv(args))) : col \notin DOMAIN Schema

\* C17: a run of count.py whose command line refers to a column absent from
\* the schema never finishes normally, and when its error is raised no batch
\* has been read or counted and nothing has been reported.
C17_AbsentColumnFailsBeforeScan ==
  (prog = "count" /\ RefersToAbsentColumn) =>
    /\ pc # "done"
    /\ err.kind = "KeyError" =>
         (total_rows = 0 /\ matched_rows = 0 /\ batch = <<>> /\ report = <<>>)


\* the run stopped on an exception
Aborted == pc \in {"error", "exited"}

DatasetRowPasses(r, cutoff) ==
  LET row == RowPool[r]
  IN  /\ row[court_type] = Text(FD)
      /\ ~IsNull(row[date_filed]) /\ DateGe(row[date_filed].v, cutoff)
      /\ ~IsNull(row[attorneys]) /\ ~IsNull(row[judges]) /\ ~IsNull(row[opinions])

\* the rows of the readable files among the first j, in path order
RECURSIVE ReadableRows(_)
ReadableRows(j) ==
  IF j = 0 THEN <<>>
  ELSE ReadableRows(j - 1) \o (IF j \in unreadable THEN <<>> ELSE files[j])

RECURSIVE RowsOfFiles(_)
RowsOfFiles(fs) == IF fs = <<>> THEN 0 ELSE Len(Head(fs)) + RowsOfFiles(Tail(fs))

\* C19: count.py visits the files in byte-wise sorted path order, whatever
\* the order of the directory listing; inside a file each step delivers the
\* next rows in source order, at most BatchSize of them and fewer only at the
\* end of the file, and a file is left only when it is exhausted; so the
\* scanned counter is always the number of rows delivered and, at the end of
\* a complete run, the number of rows of all files.
C19_ScanOrderAndCoverage ==
  /\ [](prog = "count" =>
          /\ Len(parquet_files) = Len(files)
          /\ { parquet_files[i] : i \in 1..Len(files) } = { glob_result[i] : i \in 1..Len(files) }
          /\ \A i, j \in 1..Len(files) : i < j => TextLess(parquet_files[i], parquet_files[j])
          /\ total_rows = Len(ScannedRows)
          /\ pc = "done" => (fi = Len(files) /\ total_rows = RowsOfFiles(files)))
  /\ [][prog = "count" =>
          /\ fi' # fi => /\ fi' = fi + 1 /\ pos' = 0
                         /\ fi >= 1 => pos = Len(files[fi])
          /\ (fi' = fi /\ pos' # pos) =>
               /\ batch' = SubSeq(files[fi], pos + 1, pos')
               /\ Len(batch') \in 1..BatchSize
               /\ Len(batch') < BatchSize => pos' = Len(files[fi])
               /\ total_rows' = total_rows + Len(batch')]_vars

\* a complete run over a directory listed out of path order, in which a path
\* ending in 10 is read before the path ending in 2
C19_Witness ==
  /\ prog = "count" /\ pc = "done"
  /\ Len(files) = 3 /\ total_rows = 3
  /\ glob_result # parquet_files
  /\ parquet_files = << PathPool[1], PathPool[2], PathPool[3] >>


\* the request of get_district_judges failed
RequestFailed == response.kind # "response" \/ response.status >= 400

\* the answer could not be parsed into a value
ParsingFailed == response.body # "text" \/ ~json_loads(strip_fences(strip(response.text))).ok

\* C20: get_district_judges never raises; every element of the list it
\* returns is a member of judges_list; it returns the empty list when the
\* request or the parsing failed; and from a JSON array it returns, in order,
\* the elements that are in judges_list.
C20_ReturnsOnlyListedJudges ==
  /\ raised = "none" /\ jpc # "raised"
  /\ jpc = "returned" =>
       /\ \A i \in 1..Len(returned) : \E k \in 1..Len(judges_list) : returned[i] = judges_list[k]
       /\ (RequestFailed \/ ParsingFailed) => returned = <<>>
       /\ (~RequestFailed /\ ~ParsingFailed /\ parsed.t = "array") =>
            returned = [i \in 1..Len(SelectSeq(parsed.v, LAMBDA e : InList(e, judges_list))) |->
                          SelectSeq(parsed.v, LAMBDA e : InList(e, judges_list))[i].v]

\* a fenced answer holding a listed and an unlisted name: the listed one is
\* returned
C20_Witness ==
  /\ jpc = "returned"
  /\ startswith(response.text, fence)
  /\ parsed.t = "array" /\ Len(parsed.v) = 2
  /\ Len(returned) = 1 /\ Len(judges_list) = 2


\* a token column!=value whose right-hand side is not NULL in any letter case
IsNeqValue(tok) ==
  /\ tok # has_opinion_flag
  /\ Contains(NEQ, tok)
  /\ Upper(SplitOnce(tok, NEQ)[2]) # NULL_WORD

\* the command line without its column!=value tokens
WithoutNeqValue(ids) == SelectSeq(ids, LAMBDA t : ~IsNeqValue(TokenPool[t]))

\* C24: a token column!=value whose right-hand side is not NULL (in any letter
\* case) adds no predicate and no group-by column: the parsed filters, the
\* columns read and, at the end of a run, the scanned count, the matched count
\* and the histograms are those of the command line without that token.
C24_NeqValueTokenIsIgnored ==
  (prog = "count" /\ pc # "parse") =>
    LET rest == Argv(WithoutNeqValue(args))
    IN  /\ Filters = ParseArgv(rest)
        /\ needed_cols = NeededCols(ParseArgv(rest))
        /\ (pc = "done" =>
              Outcome(total_rows, matched_rows, value_counts, err)
                = OutcomeOf(ScanAll(rest, files)))

\* a finished run of `court_type!=FD court_type` that matched a row whose
\* court_type is FD
C24_Witness ==
  /\ prog = "count" /\ pc = "done"
  /\ \E a \in 1..Len(args) : IsNeqValue(TokenPool[args[a]])
  /\ \E a \in 1..Len(args) : TokenPool[args[a]] = court_type
  /\ \E i \in 1..Len(table) : RowPool[table[i]][court_type] = Text(FD)
  /\ matched_rows > 0


\* the rows of batch b for which every predicate of the run is true
SurvivingRows(b) ==
  { i \in 1..Len(b) : \A j \in 1..Len(AllPreds) : CondOf(AllPreds[j], b)[i] = "true" }

\* C25: each processed batch of count.py adds the batch's row count to
\* total_rows and the number of its rows for which every predicate is true to
\* matched_rows (a row whose combined mask is null or false adds nothing), a
\* batch that aborts the run before line 107 adds nothing to matched_rows, and
\* no step of the run decreases either counter.
C25_CountersGrowByBatch ==
  [][ prog = "count" =>
        /\ total_rows' >= total_rows
        /\ matched_rows' >= matched_rows
        /\ (pc = "batches" /\ pos' # pos) =>
             /\ total_rows' = total_rows + Len(batch')
             /\ (err' = NoErr \/ err'.line > 107 =>
                   matched_rows' = matched_rows + Cardinality(SurvivingRows(batch')))
             /\ (err' # NoErr /\ err'.line < 107 => matched_rows' = matched_rows) ]_vars

\* after a second or later batch in which one row survived and another row,
\* whose mask under some predicate is null, did not
C25_Witness ==
  /\ prog = "count" /\ err = NoErr /\ batch # <<>>
  /\ total_rows > Len(batch)
  /\ Len(table) = 1 /\ Len(batch) = 2 /\ matched_rows >= 1
  /\ \E i \in 1..Len(batch) : \E j \in 1..Len(AllPreds) :
       CondOf(AllPreds[j], batch)[i] = "null"


\* the sum of the counts of one histogram
HistTotal(h) == SumSeq([i \in 1..Len(h) |-> h[i][2]])

\* C26: after every processed batch of count.py, for every command line, the
\* counts in the histogram of each group-by column sum to matched_rows.
C26_HistogramSumsToMatched ==
  (prog = "count" /\ err = NoErr /\ batch # <<>>) =>
    \A g \in 1..Len(group_cols) :
      /\ group_cols[g] \in DOMAIN value_counts
      /\ HistTotal(value_counts[group_cols[g]]) = matched_rows


\* C27: when otherscript.py runs with --test, once total_scanned has reached
\* the limit no further batch is read from any file, whatever number of rows
\* of the batch that reached the limit survive the filters.
C27_TestModeStopsAtLimit ==
  [][ (prog = "other" /\ TEST_MODE /\ total_scanned >= TestLimit) =>
        (total_scanned' = total_scanned /\ pos' = pos /\ fi' = fi) ]_vars


\* the sum of the probabilities of a mapping, as a fraction <<numerator, n>>
\* over the common denominator n of its entries
SumOfProbabilities(pmf, n) == << SumSeq([i \in 1..Len(pmf) |-> pmf[i][2][1]]), n >>

\* C21: for every non-empty list returned by get_district_judges,
\* get_judge_pmf maps each judge of the list to 1/n, n the length of the
\* list, and the probabilities of the mapping sum to 1; for the empty list
\* the mapping is empty.
C21_PmfUniformSumsToOne ==
  ppc = "pmf" =>
    IF returned = <<>> THEN judge_pmf = <<>>
    ELSE LET n == Len(returned)
         IN  /\ \A i \in 1..n : \E k \in 1..Len(judge_pmf) :
                   judge_pmf[k] = << returned[i], << 1, n >> >>
             /\ \A k \in 1..Len(judge_pmf) : judge_pmf[k][2] = << 1, n >>
             /\ SumOfProbabilities(judge_pmf, n) = << n, n >>


\* C22: record_until_silence always terminates: whatever chunks the
\* microphone delivers, the loop reads at most max_duration / CHUNK_DURATION
\* chunks, the function then returns, and the array returned is the
\* concatenation of exactly the chunks read, in order.
C22_RecordingTerminatesWithinCap ==
  /\ [](Len(mic) * CHUNK_DURATION <= max_duration)
  /\ [](rpc = "returned" =>
         /\ stream = "closed"
         /\ Len(audio) = Len(mic) * ChunkSamples
         /\ \A k \in 1..Len(mic) : \A i \in 1..ChunkSamples :
              audio[(k - 1) * ChunkSamples + i] = mic[k][i])
  /\ <>(rpc = "returned")

\* a recording that returned at the hard cap of the default max_duration
\* after loud and silent chunks
C22_Witness ==
  /\ rpc = "returned"
  /\ max_duration = MAX_DURATION
  /\ Len(mic) = MAX_DURATION \div CHUNK_DURATION
  /\ \E k \in 1..Len(mic) : rms_exceeds(mic[k], threshold)
  /\ \E k \in 1..Len(mic) : ~rms_exceeds(mic[k], threshold)
  /\ audio # <<>>

\* chunk k of the recording was louder than the threshold
Loud(k) == rms_exceeds(mic[k], threshold)

\* the number of chunks of silence that stops the recording
SilenceRun == SILENCE_DURATION \div CHUNK_DURATION

\* after n chunks speech has been detected and the SilenceRun most recent
\* chunks, all after a loud chunk, were at or below the threshold
QuietRunComplete(n) ==
  /\ n > SilenceRun
  /\ \A k \in (n - SilenceRun + 1)..n : ~Loud(k)
  /\ \E j \in 1..(n - SilenceRun) : Loud(j)

\* the chunks at or below the threshold read since the last loud chunk
QuietSinceSpeech ==
  IF \E k \in 1..Len(mic) : Loud(k)
  THEN Len(mic) - (CHOOSE k \in 1..Len(mic) : Loud(k) /\ \A j \in (k + 1)..Len(mic) : ~Loud(j))
  ELSE 0

\* C23: record_until_silence leaves the loop before the hard cap exactly when
\* speech has been detected and the SILENCE_DURATION / CHUNK_DURATION most
\* recent chunks since then were all at or below the threshold; it stops at
\* the chunk that completes that run, a louder chunk resets the silence count
\* to zero, and silence before any speech never stops the recording.
C23_StopsOnSilenceAfterSpeech ==
  rpc \in {"listen", "break", "returned"} =>
    LET n == Len(mic)
    IN  /\ \A m \in 1..(n - 1) : ~QuietRunComplete(m)
        /\ (rpc = "listen" => ~QuietRunComplete(n))
        /\ (rpc = "break" => QuietRunComplete(n))
        /\ (rpc = "returned" /\ n < max_chunks => QuietRunComplete(n))
        /\ (rpc = "returned" /\ ~QuietRunComplete(n) => n = max_chunks)
        /\ speech_started = (\E k \in 1..n : Loud(k))
        /\ silence_count = QuietSinceSpeech

\* a recording that began with a full run of silence, then speech, a quiet
\* chunk, speech again, and stopped before the cap at the end of a full run
C23_Witness ==
  /\ rpc = "returned" /\ Len(mic) < max_chunks
  /\ \A k \in 1..SilenceRun : ~Loud(k)
  /\ \E i, j, k \in 1..Len(mic) : i < j /\ j < k /\ Loud(i) /\ ~Loud(j) /\ Loud(k)
  /\ \E k \in 1..Len(mic) : ~Loud(k) /\ mic[k] # [i \in 1..ChunkSamples |-> 0]

====
